---- MODULE Spec2Model ----
(***************************************************************************)
(* Codeforces submission analysis and recommendation pipeline of the       *)
(* deepseek-saas repository:                                               *)
(*   - analyzeSubmissions            (frontend Dashboard, unnamed/part_002) *)
(*   - generateCodeforcesPrompt,     (backend routes/auth.js, the deepseek  *)
(*     generateCodeforcesFallback,    router that is concatenated there)    *)
(*     callDeepSeekAPI, POST /generate, POST /codeforces                    *)
(*                                                                         *)
(* JavaScript objects and Maps are modelled as sequences of <<key, value>> *)
(* pairs in insertion order, because Object.entries and Array.sort (which  *)
(* is stable) make that order observable.                                  *)
(***************************************************************************)
EXTENDS Integers, Sequences, FiniteSets, TLC

VARIABLES
    submissions,   \* analyzeSubmissions: the argument array
    pc,            \* analyzeSubmissions: "forEach" | "done"
    idx,           \* analyzeSubmissions: number of array elements already visited
    locals,        \* analyzeSubmissions: the local accumulators (lines 280-289)
    analysis,      \* analyzeSubmissions: the returned object, NoAnalysis before
    second,        \* analyzeSubmissions: a second invocation, NoFrame when there is none
    synthArgs,     \* synthesizers: the arguments [handle, userData, analysis]
    doc,           \* synthesizers: the returned text, as a sequence of lines
    docBy,         \* synthesizers: the function that returned doc, "none" before
    docAt,         \* synthesizers: the clock readings at which docBy was called
    now,           \* the clock (new Date())
    apiKey,        \* deepseek router: process.env.DEEPSEEK_API_KEY ("" when unset)
    req,           \* deepseek router: the request being served, NoRequest before
    rpc,           \* deepseek router: where the handler stands
    fullPrompt,    \* handler local: the prompt given to callDeepSeekAPI
    apiOutcome,    \* handler local: how the axios.post call ended, "none" before
    usageOutcome,  \* handler local: how the update of the user's API usage ended, "none" before
    aiResult,      \* handler local: what callDeepSeekAPI returned
    generations,   \* the Generation collection
    res,           \* deepseek router: the response sent, NoResponse before
    historyRes,    \* deepseek router: the response of GET /history, NoResponse before
    users,         \* auth router: the User collection
    regs,          \* auth router: the POST /register requests being served
    gate,          \* verifyToken: the request at the middleware and what became of it
    dash,          \* Dashboard: the React state and the stored conversations
    tasks          \* Dashboard: the asynchronous handlers in progress

analyzerVars == <<submissions, pc, idx, locals, analysis, second>>

synthVars == <<synthArgs, doc, docBy, docAt, now>>

routeVars == <<apiKey, req, rpc, fullPrompt, apiOutcome, usageOutcome, aiResult, generations, res>>

appVars == <<historyRes, users, regs, gate, dash, tasks>>

vars == <<analyzerVars, synthVars, routeVars, appVars>>

(***************************************************************************)
(* Bounds                                                                  *)
(***************************************************************************)
MaxLen == 3        \* longest submission array analysed
MaxTwiceLen == 2   \* longest submission array when two invocations are in progress
MaxRegistrations == 2   \* POST /register requests served together
MaxSynthLen == 2   \* longest submission array behind an Analysis given to a synthesizer
MaxGenerationId == 2   \* ids asked of GET /history/:id
MaxGateRequests == 2   \* requests that reach verifyToken
MaxRequests == 2   \* handleSendMessage invocations of one run of the dashboard
MaxTicks == 3      \* user actions on the dashboard, each at a later Date.now()

(***************************************************************************)
(* Generic JavaScript helpers                                              *)
(***************************************************************************)
Max(a, b) == IF a >= b THEN a ELSE b

Min(a, b) == IF a <= b THEN a ELSE b

Range(seq) == {seq[i] : i \in 1..Len(seq)}

\* keys of an object, in insertion order
Keys(obj) == [i \in 1..Len(obj) |-> obj[i][1]]

HasKey(obj, k) == \E i \in 1..Len(obj) : obj[i][1] = k

\* obj[k] for an own key
Get(obj, k) == obj[CHOOSE i \in 1..Len(obj) : obj[i][1] = k][2]

\* (obj[k] || 0)
GetOr0(obj, k) == IF HasKey(obj, k) THEN Get(obj, k) ELSE 0

\* obj[k] = v : an existing key keeps its position, a new key is appended
Put(obj, k, v) ==
    IF HasKey(obj, k)
    THEN [i \in 1..Len(obj) |-> IF obj[i][1] = k THEN <<k, v>> ELSE obj[i]]
    ELSE Append(obj, <<k, v>>)

\* obj[k] = (obj[k] || 0) + 1
Incr_Overwrite(obj, k) == Put(obj, k, 1)

Incr(obj, k) == Put(obj, k, GetOr0(obj, k) + 1)

\* Array.prototype.slice(0, n)
Slice0(seq, n) == SubSeq(seq, 1, Min(n, Len(seq)))

\* sum of the values of an object
RECURSIVE SumValues(_)
SumValues(obj) == IF obj = <<>> THEN 0 ELSE obj[1][2] + SumValues(Tail(obj))

(***************************************************************************)
(* The submission records the Codeforces API can supply.  A problem's      *)
(* tags and rating are part of the problem, so every submission of one     *)
(* problem carries the same ones.  An absent rating (undefined) is written *)
(* 0: the code only tests it for truthiness (line 331).                    *)
(***************************************************************************)
NoRating == 0

Problems ==
    { [contestId |-> 1, index |-> "A", rating |-> 1200,
       tags |-> <<"dp", "math", "greedy">>],
      [contestId |-> 1, index |-> "B", rating |-> 800,
       tags |-> <<"graphs", "trees", "strings", "binary search">>],
      [contestId |-> 2, index |-> "A", rating |-> NoRating,
       tags |-> <<>>],
      [contestId |-> 2, index |-> "B", rating |-> 1200,
       tags |-> <<"graphs", "dp">>] }

Verdicts == {"OK", "WRONG_ANSWER"}

\* programming language and creation time of a submission
Variants ==
    { [programmingLanguage |-> "GNU C++17", creationTimeSeconds |-> 1],
      [programmingLanguage |-> "Python 3",  creationTimeSeconds |-> 2] }

SubmissionRecords ==
    { [problem |-> p, verdict |-> v,
       programmingLanguage |-> w.programmingLanguage,
       creationTimeSeconds |-> w.creationTimeSeconds] :
        p \in Problems, v \in Verdicts, w \in Variants }

SeqsUpTo(S, n) == UNION {[1..k -> S] : k \in 0..n}

\* the integers whose decimal form occurs as an object key
KnownIntegers == {p.rating : p \in Problems}

\* String(n) of a property key, and parseInt of such a key
KeyOf(n) == ToString(n)

IsIntegerKey(k) == \E n \in KnownIntegers : KeyOf(n) = k

parseInt(k) == CHOOSE n \in KnownIntegers : KeyOf(n) = k

\* line 366 and line 381: (a, b) => b[1] - a[1]
byCountDesc_Ascending(a, b) == a[2] - b[2]

byCountDesc(a, b) == b[2] - a[2]

\* line 371: (a, b) => a[1] - b[1]
byCountAsc_Reversed(a, b) == b[2] - a[2]

byCountAsc(a, b) == a[2] - b[2]

\* line 377: (a, b) => parseInt(a[0]) - parseInt(b[0])
byRatingAsc_Descending(a, b) == parseInt(b[1]) - parseInt(a[1])

byRatingAsc(a, b) == parseInt(a[1]) - parseInt(b[1])

\* the comparator a sort is called with
Compare(cmp, a, b) ==
    CASE cmp = "byCountDesc" -> byCountDesc(a, b)
      [] cmp = "byCountAsc"  -> byCountAsc(a, b)
      [] cmp = "byRatingAsc" -> byRatingAsc(a, b)

\* Array.prototype.sort(cmp): stable; an element goes behind every element
\* that the comparator does not order after it.
SortStable(seq, cmp) ==
    LET Insert(sorted, x) ==
            LET pos == Cardinality({j \in 1..Len(sorted) :
                                        Compare(cmp, sorted[j], x) <= 0})
            IN  SubSeq(sorted, 1, pos) \o <<x>> \o SubSeq(sorted, pos + 1, Len(sorted))
        ins[i \in 0..Len(seq)] ==
            IF i = 0 THEN <<>> ELSE Insert(ins[i - 1], seq[i])
    IN  ins[Len(seq)]

\* Object.entries(obj): integer keys first, ascending, then the other keys
\* in insertion order
ObjectEntries(obj) ==
    LET ints == SelectSeq(obj, LAMBDA e : IsIntegerKey(e[1]))
        strs == SelectSeq(obj, LAMBDA e : ~IsIntegerKey(e[1]))
    IN  SortStable(ints, "byRatingAsc") \o strs

(***************************************************************************)
(* analyzeSubmissions (unnamed/part_002, lines 279-408)                    *)
(***************************************************************************)
\* line 292
problemKey(problem) == ToString(problem.contestId) \o "-" \o problem.index

\* lines 280-289
InitLocals_MaxAttemptsOne ==
    [ solvedProblems |-> {}, solvedByTag |-> <<>>, solvedByRating |-> <<>>,
      verdicts |-> <<>>, languages |-> <<>>, attemptsPerProblem |-> <<>>,
      problemStats |-> <<>>, totalAccepted |-> 0, maxAttempts |-> 1,
      totalAttempts |-> 0 ]

InitLocals ==
    [ solvedProblems |-> {}, solvedByTag |-> <<>>, solvedByRating |-> <<>>,
      verdicts |-> <<>>, languages |-> <<>>, attemptsPerProblem |-> <<>>,
      problemStats |-> <<>>, totalAccepted |-> 0, maxAttempts |-> 0,
      totalAttempts |-> 0 ]

\* line 317: submission.verdict === 'OK'
IsAccepted_AnyVerdict(verdict) == TRUE

IsAccepted_NotWrongAnswer(verdict) == verdict # "WRONG_ANSWER"

IsAccepted(verdict) == verdict = "OK"

\* line 322: !solvedProblems.has(problemKey)
FirstSolve_Always(solvedProblems, key) == TRUE

FirstSolve(solvedProblems, key) == key \notin solvedProblems

\* line 331: if (submission.problem.rating)
HasRating_Always(rating) == TRUE

HasRating(rating) == rating # 0

\* line 314: Math.max(stats.lastAttempt, submission.creationTimeSeconds)
UpdateLastAttempt_Latest(lastAttempt, t) == t

UpdateLastAttempt(lastAttempt, t) == Max(lastAttempt, t)

\* line 293: totalAttempts++
CountAttempt_Twice(totalAttempts) == totalAttempts + 2

CountAttempt(totalAttempts) == totalAttempts + 1

\* lines 317-318: if (submission.verdict === 'OK') { stats.solved = true; ... }
MarkSolved_Latest(solved, accepted) == accepted

MarkSolved(solved, accepted) == IF accepted THEN TRUE ELSE solved

\* line 340: Math.max(maxAttempts, stats.attempts)
UpdateMaxAttempts_Last(maxAttempts, attempts) == attempts

UpdateMaxAttempts(maxAttempts, attempts) == Max(maxAttempts, attempts)

\* lines 326-328: tags?.forEach(tag => solvedByTag[tag] = (solvedByTag[tag] || 0) + 1)
RECURSIVE CountTags(_, _)
CountTags(solvedByTag, tags) ==
    IF tags = <<>> THEN solvedByTag
    ELSE CountTags(Incr(solvedByTag, Head(tags)), Tail(tags))

\* lines 291-341: the forEach callback applied to one submission
ProcessSubmission(l, submission) ==
    LET key      == problemKey(submission.problem)
        \* lines 302-310
        fresh    == [ solved |-> FALSE, attempts |-> 0,
                      tags |-> submission.problem.tags,
                      rating |-> submission.problem.rating,
                      lastAttempt |-> submission.creationTimeSeconds ]
        stats0   == IF HasKey(l.problemStats, key)
                    THEN Get(l.problemStats, key) ELSE fresh
        accepted == IsAccepted(submission.verdict)
        newSolve == accepted /\ FirstSolve(l.solvedProblems, key)
        \* lines 313-318
        stats    == [ stats0 EXCEPT
                        !.attempts = @ + 1,
                        !.lastAttempt =
                            UpdateLastAttempt(@, submission.creationTimeSeconds),
                        !.solved = MarkSolved(@, accepted) ]
    IN  [ l EXCEPT
            !.totalAttempts = CountAttempt(@),
            !.languages = Incr(@, submission.programmingLanguage),
            !.verdicts = Incr(@, submission.verdict),
            !.problemStats = Put(@, key, stats),
            !.totalAccepted = IF accepted THEN @ + 1 ELSE @,
            !.solvedProblems = IF newSolve THEN @ \cup {key} ELSE @,
            !.solvedByTag =
                IF newSolve THEN CountTags(@, submission.problem.tags) ELSE @,
            !.solvedByRating =
                IF newSolve /\ HasRating(submission.problem.rating)
                THEN Incr(@, KeyOf(submission.problem.rating)) ELSE @,
            !.attemptsPerProblem = Put(@, key, stats.attempts),
            !.maxAttempts = UpdateMaxAttempts(@, stats.attempts) ]

\* lines 365-367
topTagsOf(solvedByTag) == Slice0(SortStable(ObjectEntries(solvedByTag), "byCountDesc"), 10)

\* lines 370-373
weakTagsOf(solvedByTag) ==
    Keys(Slice0(SortStable(ObjectEntries(solvedByTag), "byCountAsc"), 5))

\* lines 376-377
ratingDistributionOf(solvedByRating) ==
    SortStable(ObjectEntries(solvedByRating), "byRatingAsc")

\* lines 380-382
topLanguagesOf(languages) ==
    Slice0(SortStable(ObjectEntries(languages), "byCountDesc"), 5)

\* lines 385-387
RECURSIVE MaxRatingKey(_)
MaxRatingKey(dist) ==
    IF Len(dist) = 1 THEN parseInt(dist[1][1])
    ELSE Max(parseInt(dist[1][1]), MaxRatingKey(Tail(dist)))

highestSolvedRatingOf_First(ratingDistribution) ==
    IF Len(ratingDistribution) > 0 THEN parseInt(ratingDistribution[1][1]) ELSE 0

highestSolvedRatingOf(ratingDistribution) ==
    IF Len(ratingDistribution) > 0 THEN MaxRatingKey(ratingDistribution) ELSE 0

\* lines 364-408: the derived sequences and the returned object.  The
\* floating-point tagAccuracy table (lines 343-362) is an output nothing in
\* the pipeline reads; it is left out.
DeriveAnalysis(l, subs) ==
    [ totalProblemsSolved |-> Cardinality(l.solvedProblems),
      totalSubmissions    |-> Len(subs),
      totalAccepted       |-> l.totalAccepted,
      totalAttempts       |-> l.totalAttempts,
      solvedByTag         |-> l.solvedByTag,
      solvedByRating      |-> l.solvedByRating,
      verdicts            |-> l.verdicts,
      languages           |-> l.languages,
      topTags             |-> topTagsOf(l.solvedByTag),
      weakTags            |-> weakTagsOf(l.solvedByTag),
      ratingDistribution  |-> ratingDistributionOf(l.solvedByRating),
      topLanguages        |-> topLanguagesOf(l.languages),
      maxAttempts         |-> l.maxAttempts,
      highestSolvedRating |->
          highestSolvedRatingOf(ratingDistributionOf(l.solvedByRating)),
      problemStats        |-> l.problemStats,
      attemptsPerProblem  |-> l.attemptsPerProblem ]

\* the whole function, as one value
RECURSIVE ForEach(_, _)
ForEach(l, subs) ==
    IF subs = <<>> THEN l ELSE ForEach(ProcessSubmission(l, Head(subs)), Tail(subs))

analyzeSubmissions(subs) == DeriveAnalysis(ForEach(InitLocals, subs), subs)

NoAnalysis == [none |-> TRUE]

(***************************************************************************)
(* Text.  A line of a document is <<text, value, tail>>: the literal text  *)
(* before an interpolated value, the value as rendered, and the text after *)
(* it; the emoji of the headings are left out.                             *)
(***************************************************************************)
Line(text, value, tail) == <<text, value, tail>>

Plain(text) == <<text, "", "">>

\* Number.prototype.toFixed(0) of num/den, num >= 0, den > 0
toFixed0(num, den) == ToString((2 * num + den) \div (2 * den))

\* Number.prototype.toFixed(1) of num/den, num >= 0, den > 0
toFixed1(num, den) ==
    LET tenths == (20 * num + den) \div (2 * den)
    IN  ToString(tenths \div 10) \o "." \o ToString(tenths % 10)

\* ((a / b) * 100).toFixed(1) for a, b >= 0: 0/0 is NaN and a/0 is Infinity
percentFixed1(a, b) ==
    IF b = 0 THEN (IF a = 0 THEN "NaN" ELSE "Infinity") ELSE toFixed1(100 * a, b)

\* (x || fallback) for a number rendered into a template
NumberOr(x, fallback) == IF x # 0 THEN ToString(x) ELSE fallback

\* (x || fallback) for a string; an absent property is written ""
StringOr(x, fallback) == IF x # "" THEN x ELSE fallback


(***************************************************************************)
(* The arguments of the synthesizers.  An absent number is 0 and an absent *)
(* string is "": the code reads them through (x || default) only.          *)
(***************************************************************************)
Handles == {"alice", "tourist"}

UserDatas ==
    { [rating |-> 1400, rank |-> "specialist", maxRating |-> 1500, organization |-> "MIT"],
      [rating |-> 1400, rank |-> "specialist", maxRating |-> 0, organization |-> ""],
      [rating |-> 700,  rank |-> "newbie", maxRating |-> 700, organization |-> ""],
      [rating |-> 0,    rank |-> "", maxRating |-> 0, organization |-> ""] }

\* a profile rated below 700, as Codeforces rates many newcomers
LowRatedUserDatas ==
    { [rating |-> 500, rank |-> "newbie", maxRating |-> 650, organization |-> ""] }

\* an Analysis no submission array produces: languages without submissions
InconsistentAnalysis ==
    [ analyzeSubmissions(<<>>) EXCEPT
        !.topLanguages = <<<<"GNU C++17", 1>>>>,
        !.languages = <<<<"GNU C++17", 1>>>> ]

\* three problems solved, two of them rated 1200 and one rated 800
AcceptedSubmission(contestId, index) ==
    [ problem |-> CHOOSE p \in Problems : p.contestId = contestId /\ p.index = index,
      verdict |-> "OK", programmingLanguage |-> "GNU C++17", creationTimeSeconds |-> 1 ]

ThreeSolvedAnalysis ==
    analyzeSubmissions(<< AcceptedSubmission(1, "A"), AcceptedSubmission(2, "B"),
                          AcceptedSubmission(1, "B") >>)

AnalysisInputs ==
    {analyzeSubmissions(s) : s \in SeqsUpTo(SubmissionRecords, MaxSynthLen)}
        \cup {InconsistentAnalysis, ThreeSolvedAnalysis}

NoArgs == [none |-> TRUE]

(***************************************************************************)
(* generateCodeforcesPrompt (backend/routes/auth.js, lines 725-809)        *)
(***************************************************************************)
\* line 742: ((totalAccepted / totalSubmissions) * 100).toFixed(1)
promptAcceptanceRate(a) == percentFixed1(a.totalAccepted, a.totalSubmissions)

\* line 782: ((count / analysis.totalSubmissions) * 100).toFixed(1)
languagePercentage(count, a) == percentFixed1(count, a.totalSubmissions)

\* lines 769-770: the rating keys and their sum
RECURSIVE SumRatingKeys(_)
SumRatingKeys(dist) ==
    IF dist = <<>> THEN 0 ELSE parseInt(dist[1][1]) + SumRatingKeys(Tail(dist))

\* line 771: avgSolvedRating.toFixed(0)
avgSolvedRatingText(dist) == toFixed0(SumRatingKeys(dist), Len(dist))

\* the sum of the rating keys, each taken as often as its count says
RECURSIVE WeightedRatingSum(_)
WeightedRatingSum(dist) ==
    IF dist = <<>> THEN 0
    ELSE parseInt(dist[1][1]) * dist[1][2] + WeightedRatingSum(Tail(dist))

\* line 773: Math.max(0, userRating + 100 - avgSolvedRating).toFixed(0)
ratingGapText_Weighted(userRating, dist) ==
    LET num == (userRating + 100) * SumValues(dist) - WeightedRatingSum(dist)
    IN  IF num <= 0 THEN "0" ELSE toFixed0(num, SumValues(dist))

ratingGapText(userRating, dist) ==
    LET num == (userRating + 100) * Len(dist) - SumRatingKeys(dist)
    IN  IF num <= 0 THEN "0" ELSE toFixed0(num, Len(dist))

\* lines 767-776
promptRatingSection(userRating, a) ==
    <<Plain("Rating Distribution Analysis:")>> \o
    (IF Len(a.ratingDistribution) > 0
     THEN << Line("- Average solved problem rating: ",
                  avgSolvedRatingText(a.ratingDistribution), ""),
             Line("- Current rating capability: ", ToString(userRating), ""),
             Line("- Gap to next level: ",
                  ratingGapText(userRating, a.ratingDistribution), " rating points") >>
     ELSE <<Plain("No rating distribution data available")>>)

generateCodeforcesPrompt(handle, userData, a) ==
    LET userRating == userData.rating
        userRank   == StringOr(userData.rank, "unrated")
    IN  << Line("I have analyzed the Codeforces profile of ", handle,
                ". Here's a detailed analysis:"),
           Plain("User Information:"),
           Line("- Handle: ", handle, ""),
           Line("- Current Rating: ", ToString(userRating), " (" \o userRank \o ")"),
           Line("- Max Rating: ", NumberOr(userData.maxRating, ToString(userRating)), ""),
           Line("- Organization: ", StringOr(userData.organization, "Not specified"), ""),
           Plain("Performance Metrics:"),
           Line("- Total Problems Solved: ", ToString(a.totalProblemsSolved), ""),
           Line("- Total Submissions: ", ToString(a.totalSubmissions), ""),
           Line("- Acceptance Rate: ", promptAcceptanceRate(a), "%"),
           Line("- Highest Solved Rating: ", ToString(a.highestSolvedRating), ""),
           Plain("Strengths (Top Problem Tags):") >> \o
        (IF Len(a.topTags) > 0
         THEN [i \in 1..Min(5, Len(a.topTags)) |->
                  Line(ToString(i) \o ". " \o a.topTags[i][1] \o ": ",
                       ToString(a.topTags[i][2]), " problems solved")]
         ELSE <<Plain("No tag data available")>>) \o
        <<Plain("Areas for Improvement (Weakest Tags):")>> \o
        (IF Len(a.weakTags) > 0
         THEN [i \in 1..Len(a.weakTags) |->
                  Line(ToString(i) \o ". " \o a.weakTags[i] \o ": Only ",
                       ToString(GetOr0(a.solvedByTag, a.weakTags[i])),
                       " problems solved")]
         ELSE <<Plain("No weakness data available")>>) \o
        promptRatingSection(userRating, a) \o
        <<Plain("Programming Language Usage:")>> \o
        (IF Len(a.topLanguages) > 0
         THEN [i \in 1..Len(a.topLanguages) |->
                  Line(ToString(i) \o ". " \o a.topLanguages[i][1] \o ": ",
                       languagePercentage(a.topLanguages[i][2], a),
                       "% of submissions")]
         ELSE <<Plain("No language data available")>>) \o
        << Plain("Problem-Solving Patterns:"),
           Line("- Maximum attempts on a single problem: ",
                NumberOr(a.maxAttempts, "N/A"), ""),
           IF a.maxAttempts > 5
           THEN Plain("- Pattern: Tendency to persist on difficult problems (good for learning)")
           ELSE Plain("- Pattern: Efficient problem-solver, moves on quickly"),
           Plain("Based on this analysis, please provide:"),
           Plain("1. Specific competitive programming areas to focus on"),
           Plain("2. Recommended problem ratings to target (current level and next level)"),
           Plain("3. Study plan suggestions"),
           Plain("4. Key problem types to practice"),
           Plain("5. Tips to improve contest performance"),
           Plain("6. Recommended Codeforces problem IDs to solve next (provide 5-10 specific problem IDs with ratings)"),
           Plain("Please structure your response with clear sections and be specific about problem recommendations.") >>

(***************************************************************************)
(* generateAIRecommendationPrompt (unnamed/part_002, lines 411-440)        *)
(***************************************************************************)
generateAIRecommendationPrompt(handle, userData, a) ==
    LET userRating == userData.rating
        userRank   == StringOr(userData.rank, "unrated")
    IN  << Line("I have analyzed the Codeforces profile of ", handle,
                ". Here's a detailed analysis:"),
           Plain("User Information:"),
           Line("- Handle: ", handle, ""),
           Line("- Current Rating: ", ToString(userRating), " (" \o userRank \o ")"),
           Plain("Areas for Improvement (Weakest Tags):") >> \o
        [i \in 1..Len(a.weakTags) |->
            Line(ToString(i) \o ". " \o a.weakTags[i] \o ": ",
                 ToString(GetOr0(a.solvedByTag, a.weakTags[i])), " problems solved")] \o
        <<Plain("Rating Distribution Analysis:")>> \o
        (IF Len(a.ratingDistribution) > 0
         THEN << Line("- Average solved problem rating: ",
                      avgSolvedRatingText(a.ratingDistribution), ""),
                 Line("- Current rating capability: ", ToString(userRating), ""),
                 Line("- Gap to next level: ",
                      ratingGapText(userRating, a.ratingDistribution),
                      " rating points") >>
         ELSE <<>>)

(***************************************************************************)
(* generateCodeforcesFallback (backend/routes/auth.js, lines 812-858) and  *)
(* generateFallbackRecommendations (unnamed/part_002, lines 460-502)       *)
(***************************************************************************)
\* auth.js line 813, part_002 line 461: userData.rating || 1200
fallbackUserRating(userData) == IF userData.rating # 0 THEN userData.rating ELSE 1200

\* auth.js line 814, part_002 line 462
ratingRange_NoFloor(userRating) == <<userRating - 100, userRating + 100>>

ratingRange(userRating) == <<Max(800, userRating - 100), userRating + 100>>

\* auth.js lines 841, 846, 853: analysis.weakTags?.[0] || fallback
weakestTag_ByClock(a, fallback) ==
    IF Len(a.weakTags) > 0 THEN a.weakTags[(now % Len(a.weakTags)) + 1] ELSE fallback

weakestTag(a, fallback) == IF Len(a.weakTags) > 0 THEN a.weakTags[1] ELSE fallback

\* auth.js lines 839-855, part_002 lines 483-499: the same text in both
fallbackNextSteps(userRating, a) ==
    LET range == ratingRange(userRating)
    IN  << Plain("### Recommended Next Steps"),
           Line("1. **Target Rating**: Practice problems rated ",
                ToString(range[1]) \o "-" \o ToString(range[2]), ""),
           Line("2. **Weak Areas**: Focus on ", weakestTag(a, "dynamic programming"),
                " problems"),
           Plain("3. **Contest Strategy**: Participate in Div 2 contests regularly"),
           Plain("4. **Learning Plan**: Solve 5-10 problems daily from different categories"),
           Plain("### Specific Recommendations"),
           Line("- **Immediate Focus**: ", weakestTag(a, "Graph Theory"), " problems"),
           Plain("- **Problem Count**: Aim for 50 more solves in your weak areas"),
           Line("- **Rating Goal**: Target ", ToString(userRating + 100), " within 2 months"),
           Plain("- **Resources**: Use Codeforces Edu section for tutorials"),
           Plain("### Recommended Practice Problems"),
           Plain("(These are general recommendations - connect to backend for specific problem IDs)"),
           Line("1. Search Codeforces for \"" \o weakestTag(a, "dp") \o "\" tagged problems at ",
                ToString(range[1]), " rating"),
           Plain("2. Try recent Div 2 A/B problems to build speed"),
           Plain("3. Practice virtual contests to simulate real competition") >>

\* auth.js lines 816-820, part_002 lines 464-468
fallbackHeader(handle, userData) ==
    << Line("## Codeforces Analysis for ", handle, ""),
       Plain("### Basic Statistics"),
       Line("- **Rating**: ", NumberOr(userData.rating, "Unrated"),
            " (" \o StringOr(userData.rank, "Unranked") \o ")"),
       Line("- **Max Rating**: ",
            NumberOr(userData.maxRating, NumberOr(userData.rating, "Unrated")), "") >>

\* top three entries of topTags
fallbackStrengths(a) ==
    [i \in 1..Min(3, Len(a.topTags)) |->
        Line(ToString(i) \o ". **" \o a.topTags[i][1] \o "**: ",
             ToString(a.topTags[i][2]), " problems solved")]

\* first three entries of weakTags
fallbackWeaknesses(a) ==
    [i \in 1..Min(3, Len(a.weakTags)) |->
        Line(ToString(i) \o ". **" \o a.weakTags[i] \o "**: Only ",
             ToString(GetOr0(a.solvedByTag, a.weakTags[i])), " problems solved")]

generateCodeforcesFallback(handle, userData, a) ==
    fallbackHeader(handle, userData) \o
    << Line("- **Problems Solved**: ", ToString(a.totalProblemsSolved), ""),
       \* line 822
       Line("- **Acceptance Rate**: ",
            IF a.totalSubmissions > 0
            THEN percentFixed1(a.totalAccepted, a.totalSubmissions) ELSE "0", "%") >> \o
    (IF Len(a.topTags) > 0
     THEN <<Plain("### Top Strengths")>> \o fallbackStrengths(a) ELSE <<>>) \o
    (IF Len(a.weakTags) > 0
     THEN <<Plain("### Areas for Improvement")>> \o fallbackWeaknesses(a) ELSE <<>>) \o
    fallbackNextSteps(fallbackUserRating(userData), a)

generateFallbackRecommendations(handle, userData, a) ==
    fallbackHeader(handle, userData) \o
    << Line("- **Problems Solved**: ", ToString(a.totalProblemsSolved), ""),
       \* line 470
       Line("- **Acceptance Rate**: ",
            percentFixed1(a.totalAccepted, a.totalSubmissions), "%"),
       Plain("### Top Strengths") >> \o fallbackStrengths(a) \o
    <<Plain("### Areas for Improvement")>> \o fallbackWeaknesses(a) \o
    fallbackNextSteps(fallbackUserRating(userData), a)

(***************************************************************************)
(* SpecSynth: one call of one synthesizer on every argument triple         *)
(***************************************************************************)
NoRequest == [none |-> TRUE]

NoResponse == [none |-> TRUE]

NoResult == [none |-> TRUE]

NoGate == [none |-> TRUE]

NoDashboard == [none |-> TRUE]

\* no POST /register is served
AuthIdle == users = <<>> /\ regs = <<>>

\* no request is at verifyToken
GateIdle == gate = NoGate

\* the Dashboard is not mounted
DashIdle == dash = NoDashboard /\ tasks = <<>>

\* nothing else of the application runs
AppIdle ==
    /\ historyRes = [none |-> TRUE]
    /\ AuthIdle
    /\ GateIdle
    /\ DashIdle

\* the deepseek router serves no request
RouterIdle ==
    /\ apiKey = ""
    /\ req = NoRequest
    /\ rpc = "idle"
    /\ fullPrompt = <<>>
    /\ apiOutcome = "none"
    /\ usageOutcome = "none"
    /\ aiResult = NoResult
    /\ generations = <<>>
    /\ res = NoResponse
    /\ historyRes = [none |-> TRUE]

RouteIdle == RouterIdle /\ AppIdle

SynthIdle ==
    /\ synthArgs = NoArgs
    /\ doc = <<>>
    /\ docBy = "none"
    /\ docAt = {}
    /\ now = 1

NoFrame == [none |-> TRUE]

AnalyzerIdle ==
    /\ submissions = <<>>
    /\ pc = "idle"
    /\ idx = 0
    /\ locals = InitLocals
    /\ analysis = NoAnalysis
    /\ second = NoFrame

InitSynth ==
    /\ AnalyzerIdle
    /\ synthArgs \in [handle : Handles, userData : UserDatas, analysis : AnalysisInputs]
    /\ doc = <<>>
    /\ docBy = "none"
    /\ docAt = {}
    /\ now = 1
    /\ RouteIdle

\* the clock readings of the calls of one function made in a row
CalledAt(function) == IF docBy = function THEN docAt \cup {now} ELSE {now}

\* the functions can be called again and again
CallGenerateCodeforcesPrompt ==
    /\ synthArgs # NoArgs
    /\ doc' = generateCodeforcesPrompt(synthArgs.handle, synthArgs.userData,
                                       synthArgs.analysis)
    /\ docBy' = "generateCodeforcesPrompt"
    /\ docAt' = CalledAt("generateCodeforcesPrompt")
    /\ UNCHANGED <<analyzerVars, synthArgs, now, routeVars, appVars>>

CallGenerateAIRecommendationPrompt ==
    /\ synthArgs # NoArgs
    /\ doc' = generateAIRecommendationPrompt(synthArgs.handle, synthArgs.userData,
                                             synthArgs.analysis)
    /\ docBy' = "generateAIRecommendationPrompt"
    /\ docAt' = CalledAt("generateAIRecommendationPrompt")
    /\ UNCHANGED <<analyzerVars, synthArgs, now, routeVars, appVars>>

CallGenerateCodeforcesFallback ==
    /\ synthArgs # NoArgs
    /\ doc' = generateCodeforcesFallback(synthArgs.handle, synthArgs.userData,
                                         synthArgs.analysis)
    /\ docBy' = "generateCodeforcesFallback"
    /\ docAt' = CalledAt("generateCodeforcesFallback")
    /\ UNCHANGED <<analyzerVars, synthArgs, now, routeVars, appVars>>

CallGenerateFallbackRecommendations ==
    /\ synthArgs # NoArgs
    /\ doc' = generateFallbackRecommendations(synthArgs.handle, synthArgs.userData,
                                              synthArgs.analysis)
    /\ docBy' = "generateFallbackRecommendations"
    /\ docAt' = CalledAt("generateFallbackRecommendations")
    /\ UNCHANGED <<analyzerVars, synthArgs, now, routeVars, appVars>>

NextSynth ==
    \/ CallGenerateCodeforcesPrompt
    \/ CallGenerateAIRecommendationPrompt
    \/ CallGenerateCodeforcesFallback
    \/ CallGenerateFallbackRecommendations

SpecSynth == InitSynth /\ [][NextSynth]_vars

(***************************************************************************)
(* The deepseek router (backend/routes/auth.js, lines 285-1043):           *)
(* POST /generate, POST /codeforces, callDeepSeekAPI, generateMockResponse *)
(***************************************************************************)
\* lines 362-374: the keys of CUSTOM_PROMPTS and the template of each
CUSTOM_PROMPTS ==
    << <<"general_chat",
         "You are a helpful AI assistant. Respond conversationally and provide detailed, helpful responses.">>,
       <<"business_plan",
         "Analyze this business idea and provide a comprehensive business plan including market analysis, SWOT analysis, target audience, marketing strategy, and financial projections.">>,
       <<"code_review",
         "Review this code for best practices, identify bugs, security issues, suggest optimizations, and provide improved code examples.">>,
       <<"content_strategy",
         "Create a content strategy including topics, platforms, posting schedule, engagement tactics, and performance metrics.">>,
       <<"market_research",
         "Provide detailed market research including competitors, trends, opportunities, threats, and market size.">>,
       <<"learning_path",
         "Create a personalized learning path with resources, milestones, projects, and assessment methods.">>,
       <<"email_writing",
         "Write professional, clear, and effective emails for the given purpose and audience.">>,
       <<"creative_writing",
         "Help with creative writing including stories, poems, scripts, and brainstorming ideas.">>,
       <<"problem_solving",
         "Analyze problems systematically and provide step-by-step solutions with implementation guidance.">>,
       <<"codeforces_analysis",
         "You are a competitive programming expert specializing in Codeforces analysis. Analyze the user's Codeforces data and provide specific, actionable recommendations including problem IDs, areas to focus on, and study plans. Structure your response with clear sections and be specific about problem recommendations.">> >>

\* the authenticated users verifyToken can put into req.user
UserIds == {"64b7f0c2a1", "demo-user"}

\* lines 513-517 and 599-603: the demo user is stored under a fixed ObjectId
storedUserId(userId) ==
    IF userId = "demo-user" THEN "507f1f77bcf86cd799439011" ELSE userId

\* process.env.DEEPSEEK_API_KEY
ApiKeys == {"", "your-deepseek-api-key-here", "sk-live-key"}

\* the bodies a client can post to /generate; an absent field is ""
GenerateBodies ==
    [ promptType : {"", "general_chat", "codeforces_analysis", "no_such_prompt"},
      userInput  : {"", "How do I get better at graphs?"},
      context    : {"", "Earlier conversation"} ]

Absent == [absent |-> TRUE]

\* the analyses posted to /codeforces
RouteAnalyses == {analyzeSubmissions(s) : s \in SeqsUpTo(SubmissionRecords, 1)}

\* the bodies a client can post to /codeforces.  JSON lets a client send any
\* value under analysis.ratingDistribution; ratingDistributionIsArray = FALSE
\* stands for a non-empty string there.
CodeforcesBodies ==
    [ handle   : {"", "alice"},
      userData : {Absent, [rating |-> 1400, rank |-> "specialist",
                           maxRating |-> 1500, organization |-> ""]},
      analysis : {Absent} \cup RouteAnalyses,
      ratingDistributionIsArray : BOOLEAN ]

Requests ==
    [endpoint : {"/generate"}, userId : UserIds, body : GenerateBodies]
        \cup [endpoint : {"/codeforces"}, userId : UserIds, body : CodeforcesBodies]

\* what new Date() can read while a request is served
Timestamps == {1, 2}

\* how the awaited axios.post of line 680 can end: the completion payload
\* (content and usage.total_tokens, "" and 0 when absent), a payload without
\* choices, a non-2xx status, or no answer at all
ApiReplies ==
    [kind : {"completion"}, content : {"", "Focus on graphs."}, totalTokens : {0, 512}]
        \cup [kind : {"no-choices", "http-error", "network-error"},
              content : {""}, totalTokens : {0}]

\* how the awaited generation.save() and the API-usage update can end
SaveOutcomes == {"saved", "rejected"}

UsageOutcomes == {"updated", "no-user", "rejected"}

\* the text of a line
Render(line) == line[1] \o line[2] \o line[3]

\* lines 1026-1041: generateMockResponse(promptType, userInput).  callDeepSeekAPI
\* always asks for 'general_chat'.  userInput.substring(0, 100) is written as
\* the first line of the prompt; every prompt of the router is longer than
\* 100 characters, so the '...' follows.
generateMockResponse(promptType, userInput, timestamp) ==
    << Line("**Response to:** \"", Render(userInput[1]), "...\""),
       Plain("I understand you're asking about this topic. As your AI assistant, I would provide a detailed response here including:"),
       Plain("1. **Key information** related to your query"),
       Plain("2. **Actionable steps** you can take"),
       Plain("3. **Additional resources** for further learning"),
       Plain("4. **Practical examples** when applicable"),
       Line("*This is a mock response generated at ", ToString(timestamp),
            ". Connect a real AI API for actual responses.*") >>

\* lines 501-503: context, template and user input
generateFullPrompt(body) ==
    (IF body.context # "" THEN <<Plain(body.context)>> ELSE <<>>) \o
    << Plain(Get(CUSTOM_PROMPTS, body.promptType)),
       Line("User Input: ", body.userInput, "") >>

\* line 672: !apiKey || apiKey === 'your-deepseek-api-key-here'
noValidApiKey(key) == key = "" \/ key = "your-deepseek-api-key-here"

\* lines 672-675: no key, the mock answer
mockResult(prompt, timestamp) ==
    [ data |-> generateMockResponse("general_chat", prompt, timestamp),
      tokensUsed |-> 0, mode |-> "mock" ]

\* lines 706-708: the completion arrived
completionResult(reply) ==
    [ data |-> <<Plain(StringOr(reply.content, "No response from AI"))>>,
      tokensUsed |-> reply.totalTokens, mode |-> "ai" ]

\* lines 710-714: the call threw
apiFailureResult_ModeAi(prompt, timestamp) ==
    [ data |-> generateMockResponse("general_chat", prompt, timestamp),
      tokensUsed |-> 0, mode |-> "ai" ]

apiFailureResult(prompt, timestamp) ==
    [ data |-> generateMockResponse("general_chat", prompt, timestamp),
      tokensUsed |-> 0, mode |-> "error-fallback" ]

\* lines 484-498 and 581-586: the checks that answer 400
validationError(r) ==
    IF r.endpoint = "/generate"
    THEN IF r.body.promptType = "" \/ r.body.userInput = ""
         THEN "promptType and userInput are required"
         ELSE IF ~HasKey(CUSTOM_PROMPTS, r.body.promptType)
         THEN "Invalid prompt type"
         ELSE ""
    ELSE IF r.body.handle = "" \/ r.body.userData = Absent \/ r.body.analysis = Absent
         THEN "handle, userData, and analysis are required"
         ELSE ""

\* lines 768-769: ratingDistribution.map on a value that is no array throws
promptThrows(r) == r.endpoint = "/codeforces" /\ ~r.body.ratingDistributionIsArray

\* lines 519-526 and 605-617: new Generation({...}); the schema
\* (backend/server.js, lines 172-195) has the paths userId, promptType,
\* userInput, aiResponse, tokensUsed, createdAt and drops every other field
newGeneration(r, result, id, timestamp) ==
    [ id |-> id,
      userId |-> storedUserId(r.userId),
      promptType |-> IF r.endpoint = "/generate" THEN r.body.promptType
                     ELSE "codeforces_analysis",
      userInput |-> IF r.endpoint = "/generate" THEN r.body.userInput
                    ELSE "Codeforces analysis for " \o r.body.handle,
      aiResponse |-> result.data,
      tokensUsed |-> result.tokensUsed,
      createdAt |-> timestamp ]

\* lines 546-554 and 637-645: generationId is 0 for null
successResponse(r, result, generationId) ==
    [ status |-> 200,
      body |-> [ success |-> TRUE,
                 data |-> result.data,
                 promptType |-> IF r.endpoint = "/generate" THEN r.body.promptType
                                ELSE "codeforces_analysis",
                 mode |-> result.mode,
                 tokens |-> result.tokensUsed,
                 generationId |-> generationId ] ]

\* lines 647-660: the catch of /codeforces
codeforcesCatchResponse(r) ==
    [ status |-> 200,
      body |-> [ success |-> TRUE,
                 data |-> generateCodeforcesFallback(r.body.handle, r.body.userData,
                                                     r.body.analysis),
                 promptType |-> "codeforces_analysis",
                 mode |-> "fallback",
                 tokens |-> 0 ] ]

\* lines 541-554 and 632-645: the catch of generation.save() only logs; the
\* handler answers as usual, without an id
saveFailureResponse_Error(r, result) ==
    [ status |-> 500,
      body |-> [ success |-> FALSE, error |-> "Failed to generate response",
                 mode |-> "error" ] ]

saveFailureResponse(r, result) == successResponse(r, result, 0)

badRequest(message) ==
    [status |-> 400, body |-> [success |-> FALSE, error |-> message]]

\* a property read from a document that has no such path: undefined, which
\* res.json leaves out of the body
Undefined == ""

\* lines 895 and 948: gen.mode, read from the stored document
storedMode(gen) == IF "mode" \in DOMAIN gen THEN gen.mode ELSE Undefined

\* lines 897-899 and 950-952: the words of promptType capitalised
promptNameOf(promptType) ==
    CASE promptType = "general_chat" -> "General Chat"
      [] promptType = "codeforces_analysis" -> "Codeforces Analysis"
      [] promptType = "no_such_prompt" -> "No Such Prompt"
      [] OTHER -> promptType

\* lines 889-900 and 942-953
formatGeneration(gen) ==
    [ id |-> gen.id,
      promptType |-> gen.promptType,
      userInput |-> gen.userInput,
      aiResponse |-> gen.aiResponse,
      tokensUsed |-> gen.tokensUsed,
      mode |-> storedMode(gen),
      createdAt |-> gen.createdAt,
      promptName |-> promptNameOf(gen.promptType) ]

\* frontend/src/components/HistoryPanel.jsx, lines 311-316: the chip of an entry
modeChip(entry) == IF entry.mode = "ai" THEN "AI" ELSE "Mock"

\* lines 865-884: Generation.find({userId}) with the default limit 20 and skip
\* 0 (one request is served, so at most one document is stored and the sort
\* by createdAt has nothing to reorder)
findGenerations(userId) ==
    SelectSeq(generations, LAMBDA gen : gen.userId = storedUserId(userId))

\* lines 861-919: GET /history
historyResponse(userId) ==
    LET found == findGenerations(userId)
    IN  [ status |-> 200,
          body |-> [ success |-> TRUE,
                     generations |-> [i \in 1..Len(found) |-> formatGeneration(found[i])],
                     total |-> Len(found),
                     limit |-> 20,
                     skip |-> 0,
                     hasMore |-> Len(found) > 20 ] ]

\* lines 922-967: GET /history/:id
historyByIdResponse(userId, id) ==
    LET found == SelectSeq(findGenerations(userId), LAMBDA gen : gen.id = id)
    IN  IF found = <<>>
        THEN [ status |-> 404,
               body |-> [ success |-> FALSE,
                          error |-> "Generation not found or access denied" ] ]
        ELSE [ status |-> 200,
               body |-> [ success |-> TRUE,
                          generations |-> <<formatGeneration(found[1])>> ] ]

InitRoute ==
    /\ AnalyzerIdle
    /\ SynthIdle
    /\ apiKey \in ApiKeys
    /\ req = NoRequest
    /\ rpc = "idle"
    /\ fullPrompt = <<>>
    /\ apiOutcome = "none"
    /\ usageOutcome = "none"
    /\ aiResult = NoResult
    /\ generations = <<>>
    /\ res = NoResponse
    /\ AppIdle

\* lines 472-489 / 569-586: a request that fails the validation
ReceiveInvalid ==
    /\ rpc = "idle"
    /\ \E r \in Requests :
        /\ validationError(r) # ""
        /\ req' = r
        /\ res' = badRequest(validationError(r))
    /\ rpc' = "done"
    /\ UNCHANGED <<analyzerVars, synthVars, apiKey, fullPrompt, apiOutcome, usageOutcome, aiResult,
                   generations, appVars>>

\* lines 588-589 and 647-660: generateCodeforcesPrompt throws, the catch answers
ReceivePromptThrows ==
    /\ rpc = "idle"
    /\ \E r \in Requests :
        /\ validationError(r) = ""
        /\ promptThrows(r)
        /\ req' = r
        /\ res' = codeforcesCatchResponse(r)
    /\ rpc' = "done"
    /\ UNCHANGED <<analyzerVars, synthVars, apiKey, fullPrompt, apiOutcome, usageOutcome, aiResult,
                   generations, appVars>>

\* lines 500-506 / 588-592 and 665-675: the prompt is built and callDeepSeekAPI
\* is entered; without a valid key it returns the mock answer at once and the
\* handler goes on to generation.save(), with one it awaits axios.post
ReceiveValid ==
    /\ rpc = "idle"
    /\ \E r \in Requests, t \in Timestamps :
        LET prompt == IF r.endpoint = "/generate"
                      THEN generateFullPrompt(r.body)
                      ELSE generateCodeforcesPrompt(r.body.handle, r.body.userData,
                                                    r.body.analysis)
        IN  /\ validationError(r) = ""
            /\ ~promptThrows(r)
            /\ req' = r
            /\ fullPrompt' = prompt
            /\ IF noValidApiKey(apiKey)
               THEN /\ aiResult' = mockResult(prompt, t)
                    /\ rpc' = "awaitSave"
               ELSE /\ aiResult' = NoResult
                    /\ rpc' = "awaitApi"
    /\ UNCHANGED <<analyzerVars, synthVars, apiKey, apiOutcome, usageOutcome, generations, res, appVars>>

\* lines 680-714: axios.post settles
ApiSettles ==
    /\ rpc = "awaitApi"
    /\ \E reply \in ApiReplies, t \in Timestamps :
        IF reply.kind = "completion"
        THEN /\ apiOutcome' = "completed"
             /\ aiResult' = completionResult(reply)
        ELSE /\ apiOutcome' = "failed"
             /\ aiResult' = apiFailureResult(fullPrompt, t)
    /\ rpc' = "awaitSave"
    /\ UNCHANGED <<analyzerVars, synthVars, apiKey, req, fullPrompt, usageOutcome,
                   generations, res, appVars>>

\* lines 528-529 / 619-620: generation.save() resolves; the usage update follows
SaveResolves ==
    /\ rpc = "awaitSave"
    /\ \E t \in Timestamps :
        generations' = Append(generations,
                              newGeneration(req, aiResult, Len(generations) + 1, t))
    /\ rpc' = "awaitUsage"
    /\ UNCHANGED <<analyzerVars, synthVars, apiKey, req, fullPrompt, apiOutcome, usageOutcome,
                   aiResult, res, appVars>>

\* lines 541-554 / 632-645: generation.save() rejects; the handler answers
SaveRejects ==
    /\ rpc = "awaitSave"
    /\ res' = saveFailureResponse(req, aiResult)
    /\ rpc' = "done"
    /\ UNCHANGED <<analyzerVars, synthVars, apiKey, req, fullPrompt, apiOutcome, usageOutcome,
                   aiResult, generations, appVars>>

\* lines 532-554 / 623-645: the usage update ends, whichever way; the handler
\* answers with the id of the saved generation
UsageSettles ==
    /\ rpc = "awaitUsage"
    /\ \E outcome \in UsageOutcomes :
        /\ usageOutcome' = outcome
        /\ res' = successResponse(req, aiResult, generations[Len(generations)].id)
    /\ rpc' = "done"
    /\ UNCHANGED <<analyzerVars, synthVars, apiKey, req, fullPrompt, apiOutcome,
                   aiResult, generations, appVars>>

\* lines 861-967: GET /history or GET /history/:id is served, at any time;
\* the one entry of /history/:id is kept as a list of one
GetHistory ==
    /\ historyRes = NoResponse
    /\ \E userId \in UserIds :
        \/ historyRes' = historyResponse(userId)
        \/ \E id \in 1..MaxGenerationId : historyRes' = historyByIdResponse(userId, id)
    /\ UNCHANGED <<analyzerVars, synthVars, routeVars, users, regs, gate, dash, tasks>>

NextRoute ==
    \/ ReceiveInvalid
    \/ ReceivePromptThrows
    \/ ReceiveValid
    \/ ApiSettles
    \/ SaveResolves
    \/ SaveRejects
    \/ UsageSettles
    \/ GetHistory

SpecRoute == InitRoute /\ [][NextRoute]_vars

(***************************************************************************)
(* SpecFallback: the fallback synthesizers called again and again with the *)
(* same arguments while the clock advances.                                *)
(***************************************************************************)
InitFallback ==
    /\ AnalyzerIdle
    /\ synthArgs \in [handle : Handles, userData : UserDatas \cup LowRatedUserDatas,
                      analysis : RouteAnalyses]
    /\ doc = <<>>
    /\ docBy = "none"
    /\ docAt = {}
    /\ now = 1
    /\ RouteIdle

\* time passes between two calls
ClockTick ==
    /\ now + 1 \in Timestamps
    /\ now' = now + 1
    /\ UNCHANGED <<analyzerVars, synthArgs, doc, docBy, docAt, routeVars, appVars>>

NextFallback ==
    \/ CallGenerateCodeforcesFallback
    \/ CallGenerateFallbackRecommendations
    \/ ClockTick

SpecFallback == InitFallback /\ [][NextFallback]_vars



(***************************************************************************)
(* SpecRegister: POST /register (backend/routes/auth.js, lines 49-123)     *)
(* served for several requests at once, over the User collection           *)
(* (unnamed/part_000).  The database answers every call.                   *)
(***************************************************************************)
\* String.prototype.toLowerCase on the e-mail addresses of the model
toLowerCase(email) ==
    CASE email = "Ann@X.io" -> "ann@x.io"
      [] OTHER -> email

\* part_000, line 22: minlength 6
TooShortPasswords == {"abc"}

\* the bodies posted; an absent field is ""
RegisterBodies ==
    [ name : {"Ann"}, email : {"", "ann@x.io", "Ann@X.io", "bob@x.io"},
      password : {"secret1", "abc"} ]

\* a user registered before any of the requests arrives
ExistingUser ==
    [id |-> "existing", name |-> "Bob", email |-> "bob@x.io",
     password |-> "hash(hunter22)", role |-> "user"]

\* part_000, line 15: unique: true, the unique index a save has to pass
uniqueIndexViolated_NoIndex(collection, email) == FALSE

uniqueIndexViolated(collection, email) ==
    \E i \in 1..Len(collection) : collection[i].email = email

\* auth.js line 64: User.findOne({ email: email.toLowerCase() }) found a user
findOneByEmail(collection, email) ==
    \E i \in 1..Len(collection) : collection[i].email = email

\* auth.js lines 73-78 and part_000 lines 56-67: the document that is saved
newUser(body, id) ==
    [id |-> id, name |-> body.name, email |-> toLowerCase(body.email),
     password |-> "hash(" \o body.password \o ")", role |-> "user"]

\* auth.js lines 8-19 and 86-98
registered(user) ==
    [ status |-> 201,
      body |-> [ success |-> TRUE, message |-> "User registered successfully",
                 token |-> [userId |-> user.id, email |-> user.email,
                            name |-> user.name, role |-> user.role],
                 user |-> [id |-> user.id, name |-> user.name,
                           email |-> user.email, role |-> user.role] ] ]

\* auth.js lines 56-59, 66-69, 103-115
refused(message) == [status |-> 400, body |-> [success |-> FALSE, error |-> message]]

InitRegister ==
    /\ AnalyzerIdle
    /\ SynthIdle
    /\ RouterIdle
    /\ GateIdle
    /\ DashIdle
    /\ users \in {<<>>, <<ExistingUser>>}
    /\ regs = <<>>

\* lines 49-64: a request arrives; with a field missing it is refused, else
\* the handler awaits User.findOne
RegisterReceive ==
    /\ Len(regs) < MaxRegistrations
    /\ \E body \in RegisterBodies :
        regs' = Append(regs,
                       IF body.name = "" \/ body.email = "" \/ body.password = ""
                       THEN [body |-> body, pc |-> "done",
                             res |-> refused("All fields (name, email, password) are required")]
                       ELSE [body |-> body, pc |-> "findOne", res |-> NoResponse])
    /\ UNCHANGED <<analyzerVars, synthVars, routeVars, historyRes, users, gate, dash, tasks>>

\* lines 64-81: findOne resolves; a user found refuses the request, else the
\* handler awaits user.save()
RegisterFindOneResolves ==
    \E i \in 1..Len(regs) :
        /\ regs[i].pc = "findOne"
        /\ regs' = [regs EXCEPT ![i] =
                      IF findOneByEmail(users, toLowerCase(regs[i].body.email))
                      THEN [@ EXCEPT !.pc = "done",
                                     !.res = refused("User already exists with this email")]
                      ELSE [@ EXCEPT !.pc = "save"]]
        /\ UNCHANGED <<analyzerVars, synthVars, routeVars, historyRes, users, gate, dash, tasks>>

\* lines 81-115: user.save() settles: the validation rejects it, or the
\* unique index does (code 11000), or the user is inserted and the handler
\* answers 201
RegisterSaveSettles ==
    \E i \in 1..Len(regs) :
        /\ regs[i].pc = "save"
        /\ LET body == regs[i].body
               user == newUser(body, "user-" \o ToString(Len(users) + 1))
           IN  IF body.password \in TooShortPasswords
               THEN /\ regs' = [regs EXCEPT ![i] =
                                   [@ EXCEPT !.pc = "done",
                                             !.res = refused("Password must be at least 6 characters")]]
                    /\ users' = users
               ELSE IF uniqueIndexViolated(users, user.email)
               THEN /\ regs' = [regs EXCEPT ![i] =
                                   [@ EXCEPT !.pc = "done",
                                             !.res = refused("Email already exists")]]
                    /\ users' = users
               ELSE /\ regs' = [regs EXCEPT ![i] =
                                   [@ EXCEPT !.pc = "done", !.res = registered(user)]]
                    /\ users' = Append(users, user)
        /\ UNCHANGED <<analyzerVars, synthVars, routeVars, historyRes, gate, dash, tasks>>

NextRegister ==
    \/ RegisterReceive
    \/ RegisterFindOneResolves
    \/ RegisterSaveSettles

SpecRegister == InitRegister /\ [][NextRegister]_vars

\* ---------------------------------------------------------------------------
\* verifyToken (src/backend/routes/auth.js:22-46 for the auth router, 293-359
\* for the deepseek router) and the handler behind it
\* ---------------------------------------------------------------------------

\* process.env.NODE_ENV; "" is unset
NodeEnvs == {"development", "production", ""}

\* process.env.JWT_SECRET; "" is unset
JwtSecrets == {"s3cret", ""}

DefaultSecret == "your-secret-key-change-in-production"

\* process.env.JWT_SECRET || 'your-secret-key-change-in-production'
secretOf(env) == IF env.JWT_SECRET = "" THEN DefaultSecret ELSE env.JWT_SECRET

\* the tokens a header carries; tokenOf says who signed each and what
\* jwt.verify finds in it
TokenWords == {"t1", "t2", "t3", "t4", "t5"}

tokenOf(word) ==
    CASE word = "t1" -> [signedWith |-> "s3cret", claims |-> "current"]
      [] word = "t2" -> [signedWith |-> DefaultSecret, claims |-> "current"]
      [] word = "t3" -> [signedWith |-> "s3cret", claims |-> "expired"]
      [] word = "t4" -> [signedWith |-> "", claims |-> "malformed"]
      [] OTHER -> [signedWith |-> "s3cret", claims |-> "notBefore"]

\* jwt.verify(token, secret): "" when it returns the payload, else the name of
\* the error it throws
jwtVerify(word, secret) ==
    LET token == tokenOf(word)
    IN  CASE token.claims = "malformed" -> "JsonWebTokenError"
          [] token.signedWith # secret -> "JsonWebTokenError"
          [] token.claims = "expired" -> "TokenExpiredError"
          [] token.claims = "notBefore" -> "NotBeforeError"
          [] OTHER -> ""

\* req.headers['authorization'] as the words split(' ') gives; <<>> is no header
AuthHeaders ==
    {<<>>, <<"Bearer">>, <<"Bearer", "", "t1">>, <<"t1">>, <<"Token", "t1">>}
        \cup {<<"Bearer", word>> : word \in TokenWords}

\* authHeader && authHeader.split(' ')[1]; "" stands for every falsy value
tokenIn(authHeader) == IF Len(authHeader) >= 2 THEN authHeader[2] ELSE ""

DemoUser == "507f1f77bcf86cd799439011"

\* auth.js:305-306: !token && process.env.NODE_ENV === 'development'
demoBypass_AnyEnv(env, token) == token = ""

demoBypass(env, token) == token = "" /\ env.NODE_ENV = "development"

Passed(user) == [nextCalls |-> 1, responses |-> 0, status |-> 0, error |-> "", user |-> user]

Denied(status, error) ==
    [nextCalls |-> 0, responses |-> 1, status |-> status, error |-> error, user |-> ""]

\* auth.js:293-359
verifyToken(env, authHeader) ==
    LET token == tokenIn(authHeader)
        thrown == jwtVerify(token, secretOf(env))
    IN  CASE demoBypass(env, token) -> Passed(DemoUser)
          [] token = "" -> Denied(401, "Access token required")
          [] thrown = "" -> Passed(token)
          [] thrown = "TokenExpiredError" -> Denied(401, "Token expired")
          [] thrown = "JsonWebTokenError" -> Denied(401, "Invalid token")
          [] OTHER -> Denied(401, "Authentication failed")

\* auth.js:22-46
authVerifyToken(env, authHeader) ==
    LET token == tokenIn(authHeader)
    IN  CASE token = "" -> Denied(401, "Access token required")
          [] jwtVerify(token, secretOf(env)) = "" -> Passed(token)
          [] OTHER -> Denied(403, "Invalid or expired token")

GateRouters == {"auth", "deepseek"}

InitGate ==
    /\ AnalyzerIdle
    /\ SynthIdle
    /\ RouterIdle
    /\ AuthIdle
    /\ DashIdle
    /\ \E nodeEnv \in NodeEnvs, secret \in JwtSecrets :
           gate = [env |-> [NODE_ENV |-> nodeEnv, JWT_SECRET |-> secret],
                   served |-> <<>>]

GateOnly == UNCHANGED <<analyzerVars, synthVars, routeVars, historyRes, users, regs, dash, tasks>>

\* a request reaches a route guarded by verifyToken
GateReceive ==
    /\ Len(gate.served) < MaxGateRequests
    /\ \E router \in GateRouters, authHeader \in AuthHeaders :
        gate' = [gate EXCEPT !.served = Append(@,
                    [router |-> router, authHeader |-> authHeader, handlerRan |-> FALSE]
                    @@ (IF router = "deepseek"
                        THEN verifyToken(gate.env, authHeader)
                        ELSE authVerifyToken(gate.env, authHeader)))]
    /\ GateOnly

\* express runs the next layer, the route handler, when next() was called
HandlerRuns ==
    /\ \E i \in 1..Len(gate.served) :
        /\ gate.served[i].nextCalls > 0
        /\ ~gate.served[i].handlerRan
        /\ gate' = [gate EXCEPT !.served[i].handlerRan = TRUE]
    /\ GateOnly

NextGate == GateReceive \/ HandlerRuns

SpecGate == InitGate /\ [][NextGate]_vars

\* ---------------------------------------------------------------------------
\* Dashboard (src/unnamed/part_002:1505-1843): the React state of the page and
\* the asynchronous handlers running against it.  A handler invocation keeps
\* the values its closures captured at the render in which it was invoked.
\* ---------------------------------------------------------------------------

\* part_002:1612, slice(0, 50)
HistoryLimit == 50

\* codeforcesUser === null
NoUser == ""

\* part_002:1568-1573: the first message of every conversation
Welcome == <<"assistant", "welcome">>

\* a conversation as saveCurrentConversation stores it (title and lastUpdated
\* are derived from the messages and the clock and are left out)
StoredConversation(id) ==
    [id |-> id,
     messages |-> <<Welcome, <<"user", "hello">>, <<"assistant", "AI Response">>>>]

\* localStorage 'deepseek_conversations' holding the limit of 50 conversations,
\* most recent first
FullHistory == [i \in 1..HistoryLimit |-> StoredConversation(HistoryLimit + 1 - i)]

\* part_002:154-162: what useLocalStorage reads at construction
InitialHistories == {<<>>, <<StoredConversation(2), StoredConversation(1)>>, FullHistory}

\* Date.now() at construction: later than every stored conversation id
FirstClock == HistoryLimit + 1

\* what the user types: a Codeforces search and a chat message (an input that
\* is empty after trim() returns at line 1744 and changes nothing)
UserInputs == {"cf alice", "hello"}

\* part_002:1757-1760: lowerInput.startsWith('cf ') && lowerInput.length > 3
isCodeforcesSearch(userInput) == userInput = "cf alice"

\* part_002:1760: userInput.substring(3).trim()
handleOf(userInput) == IF userInput = "cf alice" THEN "alice" ELSE ""

NetworkOutcomes == {"success", "failure", "rejects"}

HistoryIds(history) == {history[i].id : i \in 1..Len(history)}

\* the sidebar entries the user selects or deletes: the top one and the
\* bottom one
Pickable(history) ==
    IF history = <<>> THEN {} ELSE {history[1].id, history[Len(history)].id}

\* time passes between two user actions
Later(d) == [d EXCEPT !.clock = Max(d.clock, dash.clock + 1)]

\* part_002:1511-1524: useState initial values
InitialDashboard(history) ==
    [loading |-> FALSE,
     isTyping |-> FALSE,
     conversation |-> <<>>,
     conversationsHistory |-> history,
     currentConversationId |-> 0,
     codeforcesUser |-> NoUser,
     codeforcesAnalysis |-> FALSE,
     showUserCard |-> FALSE,
     pendingAnalysis |-> FALSE,
     clock |-> FirstClock]

\* part_002:1565-1584
startNewConversation(d) ==
    [d EXCEPT !.currentConversationId = d.clock,
              !.conversation = <<Welcome>>,
              !.codeforcesUser = NoUser,
              !.codeforcesAnalysis = FALSE,
              !.showUserCard = FALSE,
              !.pendingAnalysis = FALSE,
              !.clock = d.clock + 1]

\* part_002:1586-1599
loadConversation(d, conversationId) ==
    LET found == {i \in 1..Len(d.conversationsHistory) :
                     d.conversationsHistory[i].id = conversationId}
    IN  IF found = {} THEN d
        ELSE [d EXCEPT !.currentConversationId = conversationId,
                       !.conversation =
                           d.conversationsHistory[CHOOSE i \in found : \A j \in found : i <= j].messages]

\* c => c.id !== id
WithoutId(history, id) == SelectSeq(history, LAMBDA c : c.id # id)

\* part_002:1602: if (conversation.length <= 1) return
nothingToSave(conversation) == Len(conversation) <= 1

\* what the callbacks of one render see (useCallback dependencies,
\* part_002:1614, 1741, 1827)
Closure(d) ==
    [conversation |-> d.conversation,
     currentConversationId |-> d.currentConversationId,
     conversationsHistory |-> d.conversationsHistory]

\* part_002:1601-1614, run with the values of the render that created it
saveCurrentConversation(closure, d) ==
    IF nothingToSave(closure.conversation) THEN d
    ELSE [d EXCEPT !.conversationsHistory =
            Slice0(<<[id |-> closure.currentConversationId,
                      messages |-> closure.conversation]>>
                   \o WithoutId(closure.conversationsHistory,
                                closure.currentConversationId),
                   HistoryLimit)]

\* part_002:1829-1843
handleDeleteConversation(d, conversationId) ==
    LET deleted == [d EXCEPT !.conversationsHistory =
                        WithoutId(d.conversationsHistory, conversationId)]
    IN  IF conversationId = d.currentConversationId
        THEN startNewConversation(deleted)
        ELSE deleted

\* setConversation(prev => [...prev, message])
appendMessage(d, content) ==
    [d EXCEPT !.conversation = Append(d.conversation, <<"assistant", content>>)]

\* part_002:1737-1740 and 1823-1826: the finally blocks
Finally_KeepsTyping(d) == [d EXCEPT !.loading = FALSE]

Finally(d) == [d EXCEPT !.loading = FALSE, !.isTyping = FALSE]

\* part_002:1617-1618 and 1772-1773
Busy(d) == [d EXCEPT !.loading = TRUE, !.isTyping = TRUE]

InFlight(task) == task.pc # "done"

InitDash ==
    /\ AnalyzerIdle
    /\ SynthIdle
    /\ RouterIdle
    /\ AuthIdle
    /\ GateIdle
    /\ \E history \in InitialHistories :
           dash = startNewConversation(InitialDashboard(history))
    /\ tasks = <<>>

DashOnly == UNCHANGED <<analyzerVars, synthVars, routeVars, historyRes, users, regs, gate>>

\* the "New chat" buttons (part_002:2208-2213, 2233)
NewChat ==
    /\ dash.clock <= FirstClock + MaxTicks
    /\ dash' = Later(startNewConversation(dash))
    /\ UNCHANGED tasks
    /\ DashOnly

\* a conversation of the sidebar is selected (part_002:950, 2206)
SelectConversation ==
    /\ dash.clock <= FirstClock + MaxTicks
    /\ \E id \in Pickable(dash.conversationsHistory) :
           dash' = Later(loadConversation(dash, id))
    /\ UNCHANGED tasks
    /\ DashOnly

\* the delete button of a conversation of the sidebar (part_002:977, 2207)
DeleteConversation ==
    /\ dash.clock <= FirstClock + MaxTicks
    /\ \E id \in Pickable(dash.conversationsHistory) :
           dash' = Later(handleDeleteConversation(dash, id))
    /\ UNCHANGED tasks
    /\ DashOnly

\* part_002:1743-1773: handleSendMessage up to its first await
HandleSendMessage ==
    /\ ~dash.loading
    /\ Len(tasks) < MaxRequests
    /\ dash.clock <= FirstClock + MaxTicks
    /\ \E userInput \in UserInputs :
        LET updatedConversation == Append(dash.conversation, <<"user", userInput>>)
            task == [handle |-> handleOf(userInput),
                     sentAt |-> dash.clock,
                     closure |-> Closure(dash),
                     updatedConversation |-> updatedConversation,
                     outcome |-> ""]
            sent == [dash EXCEPT !.conversation = updatedConversation,
                                 !.clock = dash.clock + 1]
        IN  IF isCodeforcesSearch(userInput)
            THEN /\ dash' = Busy([sent EXCEPT !.codeforcesUser = NoUser,
                                               !.codeforcesAnalysis = FALSE,
                                               !.showUserCard = FALSE,
                                               !.pendingAnalysis = FALSE])
                 /\ tasks' = Append(tasks, task @@ [pc |-> "getUserInfo"])
            ELSE /\ dash' = Busy(sent)
                 /\ tasks' = Append(tasks, task @@ [pc |-> "generate"])
    /\ DashOnly

\* the invocation returns: its frame and the closures it held are gone
Settle(i, outcome) ==
    [tasks EXCEPT ![i].pc = "done",
                  ![i].outcome = outcome,
                  ![i].closure = Closure(InitialDashboard(<<>>)),
                  ![i].updatedConversation = <<>>]

\* part_002:1620-1633: codeforcesAPI.getUserInfo resolves (it catches every
\* error itself, part_002:180-194)
UserInfoSettles ==
    /\ \E i \in 1..Len(tasks) :
        /\ tasks[i].pc = "getUserInfo"
        /\ \E success \in BOOLEAN :
            IF success
            THEN /\ tasks' = [tasks EXCEPT ![i].pc = "getUserSubmissions"]
                 /\ UNCHANGED dash
            ELSE /\ tasks' = Settle(i, "User Not Found")
                 /\ dash' = Finally(appendMessage(dash, "User Not Found"))
    /\ DashOnly

\* part_002:1635-1661: codeforcesAPI.getUserSubmissions resolves
SubmissionsSettle ==
    /\ \E i \in 1..Len(tasks) :
        /\ tasks[i].pc = "getUserSubmissions"
        /\ \E success \in BOOLEAN :
            IF success
            THEN /\ tasks' = [tasks EXCEPT ![i].pc = "analysis"]
                 /\ dash' = [dash EXCEPT !.codeforcesUser = tasks[i].handle,
                                         !.codeforcesAnalysis = TRUE,
                                         !.showUserCard = TRUE,
                                         !.pendingAnalysis = TRUE]
            ELSE /\ tasks' = Settle(i, "Limited Analysis")
                 /\ dash' = Finally([appendMessage(dash, "Limited Analysis")
                                        EXCEPT !.codeforcesUser = tasks[i].handle,
                                               !.showUserCard = TRUE])
    /\ DashOnly

\* part_002:1667-1740: deepseekAPI.generate('codeforces_analysis', prompt)
\* resolves with or without success, or rejects
AnalysisSettles ==
    /\ \E i \in 1..Len(tasks) :
        /\ tasks[i].pc = "analysis"
        /\ \E outcome \in NetworkOutcomes :
            LET content == CASE outcome = "success" -> "AI-Powered Recommendations"
                             [] outcome = "failure" -> "Fallback Recommendations"
                             [] OTHER -> "Analysis Error"
                said == appendMessage(dash, content)
            IN  /\ tasks' = Settle(i, content)
                /\ dash' = IF outcome = "rejects"
                           THEN Finally(said)
                           ELSE Finally(saveCurrentConversation(tasks[i].closure, said))
    /\ DashOnly

\* part_002:1775-1826: deepseekAPI.generate('general_chat', userInput)
\* resolves with or without success, or rejects
GenerateSettles ==
    /\ \E i \in 1..Len(tasks) :
        /\ tasks[i].pc = "generate"
        /\ \E outcome \in NetworkOutcomes :
            LET content == CASE outcome = "success" -> "AI Response"
                             [] outcome = "failure" -> "Service Error"
                             [] OTHER -> "Service Unavailable"
                finalConversation ==
                    Append(tasks[i].updatedConversation, <<"assistant", content>>)
            IN  /\ tasks' = Settle(i, content)
                /\ dash' = Finally(saveCurrentConversation(
                               tasks[i].closure,
                               [dash EXCEPT !.conversation = finalConversation]))
    /\ DashOnly

NetworkSettles ==
    \/ UserInfoSettles
    \/ SubmissionsSettle
    \/ AnalysisSettles
    \/ GenerateSettles

NextDash ==
    \/ NewChat
    \/ SelectConversation
    \/ DeleteConversation
    \/ HandleSendMessage
    \/ UserInfoSettles
    \/ SubmissionsSettle
    \/ AnalysisSettles
    \/ GenerateSettles

SpecDash == InitDash /\ [][NextDash]_vars

\* every network call eventually resolves or rejects
SpecDashLive == InitDash /\ [][NextDash]_vars /\ WF_vars(NetworkSettles)

(***************************************************************************)
(* Spec: one call of analyzeSubmissions on every array of at most MaxLen   *)
(* submission records                                                      *)
(***************************************************************************)
Init ==
    /\ submissions \in SeqsUpTo(SubmissionRecords, MaxLen)
    /\ pc = "forEach"
    /\ idx = 0
    /\ locals = InitLocals
    /\ analysis = NoAnalysis
    /\ second = NoFrame
    /\ SynthIdle
    /\ RouteIdle

\* one iteration of submissions.forEach (lines 291-341)
ForEachStep ==
    /\ pc = "forEach"
    /\ idx < Len(submissions)
    /\ locals' = ProcessSubmission(locals, submissions[idx + 1])
    /\ idx' = idx + 1
    /\ UNCHANGED <<submissions, pc, analysis, second, synthVars, routeVars, appVars>>

\* lines 343-408: derive the sequences and return
Return ==
    /\ pc = "forEach"
    /\ idx = Len(submissions)
    /\ analysis' = DeriveAnalysis(locals, submissions)
    /\ pc' = "done"
    /\ UNCHANGED <<submissions, idx, locals, second, synthVars, routeVars, appVars>>

Next == ForEachStep \/ Return

Spec == Init /\ [][Next]_vars

\* the same runs of the analyzer, for the claim that compares each result with
\* the results on the permutations of the input
SpecPermute == Init /\ [][Next]_vars

\* the same runs of the analyzer, for the claims about the states inside the
\* loop
SpecLoop == Init /\ [][Next]_vars

Done == pc = "done"

(***************************************************************************)
(* SpecTop: one call of analyzeSubmissions on arrays with more than 10     *)
(* tags and more than 5 programming languages, so that the slice(0, 10) of *)
(* topTags and the slice(0, 5) of topLanguages cut something off.          *)
(***************************************************************************)
ManyTagsProblem ==
    [contestId |-> 3, index |-> "A", rating |-> 1200,
     tags |-> <<"implementation", "math", "greedy", "dp", "graphs", "trees",
                "strings", "sortings", "brute force", "geometry", "number theory">>]

TwoTagsProblem ==
    [contestId |-> 3, index |-> "B", rating |-> 800,
     tags |-> <<"bitmasks", "number theory">>]

OneTagProblem ==
    [contestId |-> 3, index |-> "C", rating |-> NoRating, tags |-> <<"bitmasks">>]

\* problem and verdict of a submission
TopAttempts ==
    { <<ManyTagsProblem, "OK">>, <<TwoTagsProblem, "OK">>, <<OneTagProblem, "WRONG_ANSWER">> }

\* the programming languages of the submissions of an array, in order
LanguagePatterns ==
    { <<"GNU C++17", "Python 3", "Java 17", "Kotlin 1.9", "Rust 2021", "Go", "Go">>,
      <<"Go", "Python 3", "Python 3", "Rust 2021", "Kotlin 1.9", "Java 17", "GNU C++17">> }

TopSubmission(attempt, language, time) ==
    [ problem |-> attempt[1], verdict |-> attempt[2],
      programmingLanguage |-> language, creationTimeSeconds |-> time ]

TopInputs ==
    UNION { { [i \in 1..k |-> TopSubmission(attempts[i], pattern[i], i)] :
                attempts \in [1..k -> TopAttempts] } :
            pattern \in LanguagePatterns, k \in 0..7 }

InitTop ==
    /\ submissions \in TopInputs
    /\ pc = "forEach"
    /\ idx = 0
    /\ locals = InitLocals
    /\ analysis = NoAnalysis
    /\ second = NoFrame
    /\ SynthIdle
    /\ RouteIdle

SpecTop == InitTop /\ [][Next]_vars

(***************************************************************************)
(* SpecVerdict: one call of analyzeSubmissions on arrays whose verdicts    *)
(* include values outside the Codeforces enumeration and a missing one.    *)
(***************************************************************************)
\* a submission without a verdict (still being judged): the value is
\* undefined, and verdicts[undefined] is the property "undefined" (line 299)
NoVerdict == "undefined"

AnyVerdicts == {"OK", "WRONG_ANSWER", "PARTIAL", "ok", "ACCEPTED", NoVerdict}

VerdictProblems == {p \in Problems : p.contestId = 1}

VerdictRecords ==
    { [problem |-> p, verdict |-> v,
       programmingLanguage |-> "GNU C++17", creationTimeSeconds |-> 1] :
        p \in VerdictProblems, v \in AnyVerdicts }

InitVerdict ==
    /\ submissions \in SeqsUpTo(VerdictRecords, MaxLen)
    /\ pc = "forEach"
    /\ idx = 0
    /\ locals = InitLocals
    /\ analysis = NoAnalysis
    /\ second = NoFrame
    /\ SynthIdle
    /\ RouteIdle

SpecVerdict == InitVerdict /\ [][Next]_vars

(***************************************************************************)
(* SpecTwice: two invocations of analyzeSubmissions, on the same array or  *)
(* on different ones.  JavaScript runs one invocation to its end before    *)
(* the next starts; here the iterations of the two may also alternate, so  *)
(* that what is checked holds for every order the two can run in.          *)
(***************************************************************************)
TwiceRecords ==
    { [problem |-> p, verdict |-> v,
       programmingLanguage |-> "GNU C++17", creationTimeSeconds |-> 1] :
        p \in VerdictProblems, v \in Verdicts }

\* an invocation that has not started
Frame(subs) ==
    [submissions |-> subs, pc |-> "idle", idx |-> 0, locals |-> InitLocals,
     analysis |-> NoAnalysis]

\* lines 280-289: the accumulators are declared inside the function, so an
\* invocation starts from new ones whatever another invocation holds
EnterLocals_Shared(current) == current

EnterLocals(current) == InitLocals

InitTwice ==
    /\ submissions \in SeqsUpTo(TwiceRecords, MaxTwiceLen)
    /\ pc = "forEach"
    /\ idx = 0
    /\ locals = InitLocals
    /\ analysis = NoAnalysis
    /\ second \in {Frame(subs) : subs \in SeqsUpTo(TwiceRecords, MaxTwiceLen)}
    /\ SynthIdle
    /\ RouteIdle

\* lines 279-289
SecondEnter ==
    /\ second # NoFrame
    /\ second.pc = "idle"
    /\ second' = [second EXCEPT !.pc = "forEach", !.locals = EnterLocals(locals)]
    /\ UNCHANGED <<submissions, pc, idx, locals, analysis, synthVars, routeVars, appVars>>

\* lines 291-341
SecondForEachStep ==
    /\ second # NoFrame
    /\ second.pc = "forEach"
    /\ second.idx < Len(second.submissions)
    /\ second' = [second EXCEPT
                    !.locals = ProcessSubmission(@, second.submissions[second.idx + 1]),
                    !.idx = @ + 1]
    /\ UNCHANGED <<submissions, pc, idx, locals, analysis, synthVars, routeVars, appVars>>

\* lines 343-408
SecondReturn ==
    /\ second # NoFrame
    /\ second.pc = "forEach"
    /\ second.idx = Len(second.submissions)
    /\ second' = [second EXCEPT
                    !.analysis = DeriveAnalysis(second.locals, second.submissions),
                    !.pc = "done"]
    /\ UNCHANGED <<submissions, pc, idx, locals, analysis, synthVars, routeVars, appVars>>

NextTwice ==
    \/ ForEachStep
    \/ Return
    \/ SecondEnter
    \/ SecondForEachStep
    \/ SecondReturn

SpecTwice == InitTwice /\ [][NextTwice]_vars
(***************************************************************************)
(* What the input says, computed from the submission array alone           *)
(***************************************************************************)
InputProblems == {s.problem : s \in Range(submissions)}

AcceptedProblems == {s.problem : s \in {r \in Range(submissions) : r.verdict = "OK"}}

SubmissionsOf(subs, p) == {i \in 1..Len(subs) : subs[i].problem = p}

AllTags == UNION {Range(p.tags) : p \in Problems}

\* the tags of the accepted submissions, in input order, first occurrences only
RECURSIVE FirstSeen(_, _)
FirstSeen(seen, rest) ==
    IF rest = <<>> THEN seen
    ELSE FirstSeen(IF Head(rest) \in Range(seen) THEN seen ELSE Append(seen, Head(rest)),
                   Tail(rest))

RECURSIVE AcceptedTags(_)
AcceptedTags(subs) ==
    IF subs = <<>> THEN <<>>
    ELSE (IF Head(subs).verdict = "OK" THEN Head(subs).problem.tags ELSE <<>>)
         \o AcceptedTags(Tail(subs))

TagInsertionOrder == FirstSeen(<<>>, AcceptedTags(submissions))

PositionIn(seq, x) == CHOOSE i \in 1..Len(seq) : seq[i] = x

\* an object as a mapping, its insertion order forgotten
MappingOf(obj) == [k \in Range(Keys(obj)) |-> Get(obj, k)]

NoDuplicateKeys(obj) == \A i, j \in 1..Len(obj) : obj[i][1] = obj[j][1] => i = j

(***************************************************************************)
(* C1: totalProblemsSolved is the number of distinct problem keys that     *)
(* have at least one accepted ('OK') submission, and so never exceeds the  *)
(* number of distinct problem keys present, however many failing or        *)
(* accepted submissions a problem has.                                     *)
(***************************************************************************)
C1_SolvedCount ==
    Done =>
        /\ analysis.totalProblemsSolved =
               Cardinality({problemKey(p) : p \in AcceptedProblems})
        /\ analysis.totalProblemsSolved <=
               Cardinality({problemKey(p) : p \in InputProblems})

\* one problem with a failing and two accepted submissions, counted once
C1_Witness ==
    /\ Done
    /\ Len(submissions) = 3
    /\ Cardinality(InputProblems) = 1
    /\ Cardinality({i \in 1..3 : submissions[i].verdict = "OK"}) = 2
    /\ submissions[1].verdict = "WRONG_ANSWER"
    /\ analysis.totalProblemsSolved = 1

(***************************************************************************)
(* C2: order-independence.  The array with two neighbouring elements       *)
(* exchanged is analysed again; every permutation is a product of such     *)
(* exchanges, and every array of the bounded input set is examined.        *)
(***************************************************************************)
Swap(subs, i, j) ==
    [k \in 1..Len(subs) |-> IF k = i THEN subs[j] ELSE IF k = j THEN subs[i] ELSE subs[k]]

Exchanges == {Swap(submissions, i, i + 1) : i \in 1..(Len(submissions) - 1)}

CountsOf(entries) == [i \in 1..Len(entries) |-> entries[i][2]]

WeakCountsOf(a) == [i \in 1..Len(a.weakTags) |-> Get(a.solvedByTag, a.weakTags[i])]

MaxTimeOf(subs, p) ==
    CHOOSE t \in {subs[i].creationTimeSeconds : i \in SubmissionsOf(subs, p)} :
        \A i \in SubmissionsOf(subs, p) : subs[i].creationTimeSeconds <= t

LastAttemptsTrue(a, subs) ==
    \A p \in {s.problem : s \in Range(subs)} :
        /\ HasKey(a.problemStats, problemKey(p))
        /\ Get(a.problemStats, problemKey(p)).lastAttempt = MaxTimeOf(subs, p)

\* the part of the Analysis that does not depend on how equal counts are ordered
SameAggregates(a, b) ==
    /\ a.totalProblemsSolved = b.totalProblemsSolved
    /\ a.totalSubmissions = b.totalSubmissions
    /\ a.totalAccepted = b.totalAccepted
    /\ a.totalAttempts = b.totalAttempts
    /\ a.maxAttempts = b.maxAttempts
    /\ a.highestSolvedRating = b.highestSolvedRating
    /\ MappingOf(a.solvedByTag) = MappingOf(b.solvedByTag)
    /\ MappingOf(a.solvedByRating) = MappingOf(b.solvedByRating)
    /\ MappingOf(a.languages) = MappingOf(b.languages)
    /\ a.ratingDistribution = b.ratingDistribution

SameDerivedSequences(a, b) ==
    /\ a.topTags = b.topTags
    /\ a.weakTags = b.weakTags
    /\ a.topLanguages = b.topLanguages

\* C2 as stated: every permutation of the input yields the same final
\* Analysis - counters, mappings and the derived sequences topTags, weakTags,
\* ratingDistribution, topLanguages - and true per-problem lastAttempt maxima.
C2_OrderIndependent_AsStated ==
    Done =>
        \A other \in Exchanges :
            LET b == analyzeSubmissions(other)
            IN  /\ SameAggregates(analysis, b)
                /\ SameDerivedSequences(analysis, b)
                /\ LastAttemptsTrue(b, other)

\* C2 amended: every permutation of the input yields the same counters, the
\* same solvedByTag / solvedByRating / languages mappings, the same
\* ratingDistribution and highestSolvedRating, per-problem lastAttempt equal
\* to the maximum timestamp, and topTags, weakTags, topLanguages with the same
\* sequence of counts; which of several keys with equal counts stands where
\* (and which of them survives the cut) follows the input order.
C2_OrderIndependent ==
    Done =>
        /\ LastAttemptsTrue(analysis, submissions)
        /\ \A other \in Exchanges :
               LET b == analyzeSubmissions(other)
               IN  /\ SameAggregates(analysis, b)
                   /\ LastAttemptsTrue(b, other)
                   /\ CountsOf(analysis.topTags) = CountsOf(b.topTags)
                   /\ WeakCountsOf(analysis) = WeakCountsOf(b)
                   /\ CountsOf(analysis.topLanguages) = CountsOf(b.topLanguages)

\* a problem whose later submission comes first in the array, next to a
\* second solved problem, so that an exchange changes both the insertion
\* order of the tags and the order of the timestamps
C2_Witness ==
    /\ Done
    /\ Len(submissions) = 3
    /\ submissions[1].problem = submissions[2].problem
    /\ submissions[1].creationTimeSeconds > submissions[2].creationTimeSeconds
    /\ submissions[3].problem # submissions[1].problem
    /\ analysis.totalProblemsSolved = 2
    /\ \E other \in Exchanges : analyzeSubmissions(other).weakTags # analysis.weakTags

(***************************************************************************)
(* C5: solvedByTag[t] is the number of distinct solved problems that carry *)
(* tag t, once per problem and not once per submission; a solved problem   *)
(* without tags is in no tag bucket but is counted in totalProblemsSolved. *)
(***************************************************************************)
C5_SolvedByTag ==
    Done =>
        /\ NoDuplicateKeys(analysis.solvedByTag)
        /\ Range(Keys(analysis.solvedByTag)) \subseteq AllTags
        /\ \A t \in AllTags :
               GetOr0(analysis.solvedByTag, t) =
                   Cardinality({p \in AcceptedProblems : t \in Range(p.tags)})
        /\ \A t \in Range(Keys(analysis.solvedByTag)) : Get(analysis.solvedByTag, t) >= 1
        /\ analysis.totalProblemsSolved = Cardinality(AcceptedProblems)

\* a three-tag problem accepted twice after the untagged problem was solved
C5_Witness ==
    /\ Done
    /\ \E p \in AcceptedProblems : p.tags = <<>>
    /\ \E p \in AcceptedProblems :
           /\ Len(p.tags) = 3
           /\ Cardinality({i \in SubmissionsOf(submissions, p) :
                               submissions[i].verdict = "OK"}) = 2
           /\ \A t \in Range(p.tags) : Get(analysis.solvedByTag, t) = 1
    /\ analysis.totalProblemsSolved = 2

(***************************************************************************)
(* C6: the values of solvedByRating sum to the number of distinct solved   *)
(* problems that have a rating: to totalProblemsSolved when every solved   *)
(* problem is rated, and to less by the number of unrated solved problems  *)
(* otherwise.                                                              *)
(***************************************************************************)
C6_SolvedByRatingSum ==
    Done =>
        LET rated   == {p \in AcceptedProblems : p.rating # NoRating}
            unrated == AcceptedProblems \ rated
        IN  /\ SumValues(analysis.solvedByRating) = Cardinality(rated)
            /\ unrated = {} =>
                   SumValues(analysis.solvedByRating) = analysis.totalProblemsSolved
            /\ analysis.totalProblemsSolved =
                   SumValues(analysis.solvedByRating) + Cardinality(unrated)

\* two solved problems of the same rating and the unrated problem solved
C6_Witness ==
    /\ Done
    /\ analysis.totalProblemsSolved = 3
    /\ \E p \in AcceptedProblems : p.rating = NoRating
    /\ analysis.solvedByRating = <<<<"1200", 2>>>>

(***************************************************************************)
(* C7: on the empty array every counter is 0, every mapping and every      *)
(* derived sequence is empty, and highestSolvedRating is 0.                *)
(***************************************************************************)
C7_EmptyInput ==
    (Done /\ submissions = <<>>) =>
        /\ analysis.totalProblemsSolved = 0
        /\ analysis.totalSubmissions = 0
        /\ analysis.totalAccepted = 0
        /\ analysis.totalAttempts = 0
        /\ analysis.maxAttempts = 0
        /\ analysis.solvedByTag = <<>>
        /\ analysis.solvedByRating = <<>>
        /\ analysis.languages = <<>>
        /\ analysis.topTags = <<>>
        /\ analysis.weakTags = <<>>
        /\ analysis.ratingDistribution = <<>>
        /\ analysis.topLanguages = <<>>
        /\ analysis.highestSolvedRating = 0

C7_Witness == Done /\ submissions = <<>> /\ idx = 0

(***************************************************************************)
(* The lines of a synthesized document                                     *)
(***************************************************************************)
\* the rendered value of the line that starts with the given text
ValueAfter(d, text) == d[CHOOSE i \in 1..Len(d) : d[i][1] = text][2]

HasLine(d, text) == \E i \in 1..Len(d) : d[i][1] = text

NotANumberTexts == {"NaN", "Infinity"}

(***************************************************************************)
(* C8: with totalSubmissions = 0 the acceptance-rate text of the prompt    *)
(* shows 0%, and no ratio in the prompt (acceptance rate, language         *)
(* percentages, average solved rating) is rendered as NaN or Infinity,     *)
(* whatever Analysis is passed in.                                         *)
(***************************************************************************)
C8_ZeroSubmissionsPrompt ==
    (docBy = "generateCodeforcesPrompt" /\ synthArgs.analysis.totalSubmissions = 0) =>
        /\ HasLine(doc, "- Acceptance Rate: ")
        /\ ValueAfter(doc, "- Acceptance Rate: ") \in {"0", "0.0"}
        /\ \A i \in 1..Len(doc) : doc[i][2] \notin NotANumberTexts

(***************************************************************************)
(* C9: for a profile rating r the fallback document recommends the band    *)
(* max(800, r - 100) to r + 100 and names weakTags[0], the weakest tag, as *)
(* the immediate focus; rating 1400 gives the band 1300-1500.              *)
(***************************************************************************)
C9_FallbackBandAndFocus ==
    docBy \in {"generateCodeforcesFallback", "generateFallbackRecommendations"} =>
        LET r == synthArgs.userData.rating
            a == synthArgs.analysis
            low == IF r - 100 > 800 THEN r - 100 ELSE 800
        IN  /\ HasLine(doc, "1. **Target Rating**: Practice problems rated ")
            /\ HasLine(doc, "- **Immediate Focus**: ")
            /\ r # 0 =>
                   ValueAfter(doc, "1. **Target Rating**: Practice problems rated ")
                       = ToString(low) \o "-" \o ToString(r + 100)
            /\ r = 1400 =>
                   ValueAfter(doc, "1. **Target Rating**: Practice problems rated ")
                       = "1300-1500"
            /\ Len(a.weakTags) > 0 =>
                   /\ ValueAfter(doc, "- **Immediate Focus**: ") = a.weakTags[1]
                   /\ \A t \in Range(Keys(a.solvedByTag)) :
                          Get(a.solvedByTag, a.weakTags[1]) <= Get(a.solvedByTag, t)

\* rating 1400 and weakest tag "graphs", through the backend fallback
C9_Witness ==
    /\ docBy = "generateCodeforcesFallback"
    /\ synthArgs.handle = "alice"
    /\ synthArgs.userData.rating = 1400
    /\ Len(synthArgs.analysis.weakTags) > 1
    /\ synthArgs.analysis.weakTags[1] = "graphs"
    /\ ValueAfter(doc, "1. **Target Rating**: Practice problems rated ") = "1300-1500"
    /\ ValueAfter(doc, "- **Immediate Focus**: ") = "graphs"

(***************************************************************************)
(* C10: weakTags holds the tags of solvedByTag by solved count ascending,  *)
(* at most the first 5, equal counts in the order in which the tags were   *)
(* first inserted; every tag left out counts at least as much as every tag *)
(* kept.                                                                   *)
(***************************************************************************)
C10_WeakTags ==
    Done =>
        LET w       == analysis.weakTags
            cnt(t)  == Get(analysis.solvedByTag, t)
            pos(t)  == PositionIn(TagInsertionOrder, t)
            Before(a, b) == cnt(a) < cnt(b) \/ (cnt(a) = cnt(b) /\ pos(a) < pos(b))
            tags    == Range(Keys(analysis.solvedByTag))
        IN  /\ tags = Range(TagInsertionOrder)
            /\ Len(w) = Min(5, Cardinality(tags))
            /\ Range(w) \subseteq tags
            /\ \A i, j \in 1..Len(w) : i < j => Before(w[i], w[j])
            /\ \A t \in tags \ Range(w) : \A i \in 1..Len(w) :
                   /\ Before(w[i], t)
                   /\ cnt(t) >= cnt(w[i])

\* seven tags, two of them with two solved problems, so that both the order
\* by count and the cut at five matter
C10_Witness ==
    /\ Done
    /\ Len(analysis.solvedByTag) = 7
    /\ Len(analysis.weakTags) = 5
    /\ \E t \in Range(Keys(analysis.solvedByTag)) : Get(analysis.solvedByTag, t) = 2
    /\ Get(analysis.solvedByTag, analysis.weakTags[5]) = 1
    /\ analysis.solvedByTag[1][2] = 2

(***************************************************************************)
(* C3: when the backend call fails while /codeforces is served, the        *)
(* content returned is the output of generateCodeforcesFallback for the    *)
(* request's handle, userData and analysis.                                *)
(***************************************************************************)
C3_ApiFailureFallback ==
    (rpc = "done" /\ req.endpoint = "/codeforces" /\ apiOutcome = "failed")
        => res.body.data = generateCodeforcesFallback(req.body.handle, req.body.userData,
                                                      req.body.analysis)

IsTopOf(top, obj, n) ==
    /\ Len(top) = Min(n, Len(obj))
    /\ Range(top) \subseteq Range(obj)
    /\ NoDuplicateKeys(top)
    /\ \A i, j \in 1..Len(top) : i < j => top[i][2] >= top[j][2]
    /\ \A o \in Range(obj) \ Range(top) : \A e \in Range(top) : o[2] <= e[2]

C11_TopTagsTopLanguages ==
    Done => /\ IsTopOf(analysis.topTags, analysis.solvedByTag, 10)
            /\ IsTopOf(analysis.topLanguages, analysis.languages, 5)

\* 12 tags and 6 languages; a tag and a language inserted late come first
C11_Witness ==
    /\ Done
    /\ Len(analysis.solvedByTag) = 12
    /\ Len(analysis.topTags) = 10
    /\ analysis.solvedByTag[11] = <<"number theory", 2>>
    /\ analysis.topTags[1] = <<"number theory", 2>>
    /\ analysis.solvedByTag[12] = <<"bitmasks", 1>>
    /\ <<"bitmasks", 1>> \notin Range(analysis.topTags)
    /\ Len(analysis.languages) = 6
    /\ Len(analysis.topLanguages) = 5
    /\ analysis.topLanguages[1] = <<"Go", 2>>
    /\ analysis.languages[6] = <<"Go", 2>>

(***************************************************************************)
(* C12: ratingDistribution holds exactly the entries of solvedByRating,    *)
(* one for each distinct rating of a solved problem, by numeric rating     *)
(* strictly ascending.                                                     *)
(***************************************************************************)
SolvedRatings == {p.rating : p \in {q \in AcceptedProblems : q.rating # NoRating}}

C12_RatingDistribution ==
    Done => LET dist == analysis.ratingDistribution
            IN  /\ Len(dist) = Len(analysis.solvedByRating)
                /\ Range(dist) = Range(analysis.solvedByRating)
                /\ {parseInt(dist[i][1]) : i \in 1..Len(dist)} = SolvedRatings
                /\ Len(dist) = Cardinality(SolvedRatings)
                /\ \A i \in 1..Len(dist) :
                       dist[i][2] = Cardinality({p \in AcceptedProblems :
                                                    p.rating = parseInt(dist[i][1])})
                /\ \A i, j \in 1..Len(dist) :
                       i < j => parseInt(dist[i][1]) < parseInt(dist[j][1])

\* the problem rated 1200 is solved before the one rated 800
C12_Witness ==
    /\ Done
    /\ Len(submissions) = 3
    /\ submissions[1].problem.rating = 1200 /\ submissions[1].verdict = "OK"
    /\ submissions[3].problem.rating = 800
    /\ analysis.ratingDistribution = << <<"800", 1>>, <<"1200", 2>> >>

(***************************************************************************)
(* C13: highestSolvedRating is the greatest rating of a solved problem     *)
(* that has a rating, and 0 when no solved problem has one.                *)
(***************************************************************************)
C13_HighestSolvedRating ==
    Done => /\ SolvedRatings = {} => analysis.highestSolvedRating = 0
            /\ SolvedRatings # {} =>
                   /\ analysis.highestSolvedRating \in SolvedRatings
                   /\ \A r \in SolvedRatings : r <= analysis.highestSolvedRating

\* both ratings solved; the last submission is to the lower-rated problem
C13_Witness ==
    /\ Done
    /\ SolvedRatings = {800, 1200}
    /\ analysis.highestSolvedRating = 1200
    /\ submissions[Len(submissions)].problem.rating = 800

(***************************************************************************)
(* C14: maxAttempts is the greatest number of submissions made to one      *)
(* problem, 0 for the empty array; a problem with k submissions makes      *)
(* maxAttempts at least k.                                                 *)
(***************************************************************************)
C14_MaxAttempts ==
    Done => /\ \A p \in InputProblems :
                   analysis.maxAttempts >= Cardinality(SubmissionsOf(submissions, p))
            /\ InputProblems # {} =>
                   \E p \in InputProblems :
                       analysis.maxAttempts = Cardinality(SubmissionsOf(submissions, p))
            /\ InputProblems = {} => analysis.maxAttempts = 0

\* a wrong answer and then an accepted answer to one problem, another problem last
C14_Witness ==
    /\ Done
    /\ Len(submissions) = 3
    /\ submissions[1].problem = submissions[2].problem
    /\ submissions[1].verdict = "WRONG_ANSWER" /\ submissions[2].verdict = "OK"
    /\ submissions[3].problem # submissions[1].problem
    /\ analysis.totalProblemsSolved = 1
    /\ analysis.totalAccepted = 1
    /\ analysis.maxAttempts = 2

(***************************************************************************)
(* C15: languages[L] is the number of submissions written in L, accepted   *)
(* or not, problem solved or not; the values of languages sum to           *)
(* totalSubmissions.                                                       *)
(***************************************************************************)
InputLanguages == {s.programmingLanguage : s \in Range(submissions)}

C15_Languages ==
    Done => /\ Range(Keys(analysis.languages)) = InputLanguages
            /\ NoDuplicateKeys(analysis.languages)
            /\ \A L \in InputLanguages :
                   Get(analysis.languages, L) =
                       Cardinality({i \in 1..Len(submissions) :
                                       submissions[i].programmingLanguage = L})
            /\ SumValues(analysis.languages) = analysis.totalSubmissions
            /\ analysis.totalSubmissions = Len(submissions)

\* a language used twice, once for a wrong answer to a problem never solved
C15_Witness ==
    /\ Done
    /\ Len(submissions) = 3
    /\ analysis.totalProblemsSolved = 1
    /\ submissions[1].verdict = "WRONG_ANSWER"
    /\ problemKey(submissions[1].problem) \notin
           {problemKey(p) : p \in AcceptedProblems}
    /\ analysis.languages = << <<"Python 3", 2>>, <<"GNU C++17", 1>> >>

(***************************************************************************)
(* C16: totalAccepted is the number of submissions whose verdict is 'OK';  *)
(* a submission with any other verdict, one outside the enumeration or a   *)
(* missing one included, adds nothing to totalAccepted and does not mark   *)
(* its problem solved.                                                     *)
(***************************************************************************)
C16_TotalAccepted ==
    Done => /\ analysis.totalAccepted =
                   Cardinality({i \in 1..Len(submissions) : submissions[i].verdict = "OK"})
            /\ analysis.totalProblemsSolved = Cardinality(AcceptedProblems)
            /\ \A p \in InputProblems :
                   Get(analysis.problemStats, problemKey(p)).solved
                       <=> p \in AcceptedProblems
            /\ \A p \in InputProblems \ AcceptedProblems :
                   \A t \in Range(p.tags) :
                       GetOr0(analysis.solvedByTag, t) =
                           Cardinality({q \in AcceptedProblems : t \in Range(q.tags)})

\* a missing verdict, an unknown one and an accepted one
C16_Witness ==
    /\ Done
    /\ Len(submissions) = 3
    /\ submissions[1].verdict = NoVerdict
    /\ submissions[2].verdict = "ACCEPTED"
    /\ submissions[2].problem = submissions[1].problem
    /\ submissions[3].verdict = "OK"
    /\ submissions[3].problem # submissions[1].problem
    /\ analysis.totalAccepted = 1
    /\ analysis.totalProblemsSolved = 1
    /\ ~Get(analysis.problemStats, problemKey(submissions[1].problem)).solved

(***************************************************************************)
(* C17: the prompt synthesizer returns a document for every handle,        *)
(* profile and analysis, and a section whose topTags, weakTags,            *)
(* ratingDistribution or topLanguages is empty holds an explicit           *)
(* 'No ... data available' phrase: it is not left blank.                   *)
(***************************************************************************)
\* the text of the line that follows the heading, "" when nothing follows
LineAfter(d, heading) ==
    LET i == CHOOSE k \in 1..Len(d) : d[k][1] = heading
    IN  IF i < Len(d) THEN d[i + 1][1] ELSE ""

PhraseWhenEmpty(d, field, heading, phrase) ==
    (Len(field) = 0 /\ HasLine(d, heading)) => LineAfter(d, heading) = phrase

C17_NoDataPhrases ==
    docBy \in {"generateCodeforcesPrompt", "generateAIRecommendationPrompt"} =>
        LET a == synthArgs.analysis
        IN  /\ Len(doc) > 0
            /\ PhraseWhenEmpty(doc, a.topTags, "Strengths (Top Problem Tags):",
                               "No tag data available")
            /\ PhraseWhenEmpty(doc, a.weakTags, "Areas for Improvement (Weakest Tags):",
                               "No weakness data available")
            /\ PhraseWhenEmpty(doc, a.ratingDistribution, "Rating Distribution Analysis:",
                               "No rating distribution data available")
            /\ PhraseWhenEmpty(doc, a.topLanguages, "Programming Language Usage:",
                               "No language data available")

(***************************************************************************)
(* C18: with a non-empty ratingDistribution the prompt's gap to the next   *)
(* level is max(0, rating + 100 - avg), avg being the mean of the distinct *)
(* rating keys, each counted once whatever its solved count, and rating    *)
(* the profile rating, 0 when absent; the gap shown is never negative.     *)
(***************************************************************************)
RECURSIVE SetSum(_)
SetSum(S) == IF S = {} THEN 0 ELSE LET x == CHOOSE y \in S : TRUE IN x + SetSum(S \ {x})

RatingKeys(dist) == {parseInt(dist[i][1]) : i \in 1..Len(dist)}

\* g is an integer nearest to max(0, target - sum / n), as toFixed(0) prints it
IsRoundedGap(g, target, sum, n) ==
    LET exact == IF target * n - sum > 0 THEN target * n - sum ELSE 0
        diff  == g * n - exact
    IN  /\ g >= 0
        /\ 2 * diff <= n
        /\ 2 * diff >= 0 - n

C18_RatingGap ==
    (/\ docBy \in {"generateCodeforcesPrompt", "generateAIRecommendationPrompt"}
     /\ Len(synthArgs.analysis.ratingDistribution) > 0)
        => LET dist == synthArgs.analysis.ratingDistribution
               keys == RatingKeys(dist)
               r    == synthArgs.userData.rating
           IN  /\ HasLine(doc, "- Gap to next level: ")
               /\ \E g \in 0..(r + 100) :
                      /\ ValueAfter(doc, "- Gap to next level: ") = ToString(g)
                      /\ IsRoundedGap(g, r + 100, SetSum(keys), Cardinality(keys))

\* keys 800 and 1200, 1200 solved twice: the mean of the keys is 1000, the
\* mean of the solved ratings is not
C18_Witness ==
    /\ docBy = "generateCodeforcesPrompt"
    /\ synthArgs.userData.rating = 1400
    /\ synthArgs.analysis.ratingDistribution = << <<"800", 1>>, <<"1200", 2>> >>
    /\ ValueAfter(doc, "- Average solved problem rating: ") = "1000"
    /\ ValueAfter(doc, "- Gap to next level: ") = "500"
    /\ ratingGapText_Weighted(1400, synthArgs.analysis.ratingDistribution) # "500"

FallbackFunctions == {"generateCodeforcesFallback", "generateFallbackRecommendations"}

Visited == SubSeq(submissions, 1, idx)

VisitedOf(key) == {i \in 1..idx : problemKey(submissions[i].problem) = key}

StatsOfVisited ==
    /\ Range(Keys(locals.problemStats)) =
           {problemKey(Visited[i].problem) : i \in 1..Len(Visited)}
    /\ NoDuplicateKeys(locals.problemStats)
    /\ \A key \in Range(Keys(locals.problemStats)) :
           LET stats == Get(locals.problemStats, key)
           IN  /\ stats.attempts >= 1
               /\ stats.attempts = Cardinality(VisitedOf(key))
               /\ \E i \in VisitedOf(key) :
                      stats.lastAttempt = submissions[i].creationTimeSeconds
               /\ \A i \in VisitedOf(key) :
                      stats.lastAttempt >= submissions[i].creationTimeSeconds
               /\ stats.solved <=> \E i \in VisitedOf(key) : submissions[i].verdict = "OK"

SolvedStays ==
    \A key \in Range(Keys(locals.problemStats)) :
        Get(locals.problemStats, key).solved =>
            /\ HasKey(locals'.problemStats, key)
            /\ Get(locals'.problemStats, key).solved

C21_ProblemStats == []StatsOfVisited /\ [][SolvedStays]_vars

\* a problem accepted first and failed afterwards, the earlier timestamp last
C21_Witness ==
    /\ idx = 2
    /\ Len(submissions) = 3
    /\ submissions[1].problem = submissions[2].problem
    /\ submissions[1].verdict = "OK" /\ submissions[2].verdict = "WRONG_ANSWER"
    /\ submissions[1].creationTimeSeconds = 2 /\ submissions[2].creationTimeSeconds = 1
    /\ Get(locals.problemStats, problemKey(submissions[1].problem)) =
           [ solved |-> TRUE, attempts |-> 2,
             tags |-> submissions[1].problem.tags,
             rating |-> submissions[1].problem.rating,
             lastAttempt |-> 2 ]

(***************************************************************************)
(* C22: totalSubmissions = totalAttempts = the length of the array, and    *)
(* totalProblemsSolved <= totalAccepted <= totalSubmissions.               *)
(***************************************************************************)
C22_Counters ==
    Done => /\ analysis.totalSubmissions = Len(submissions)
            /\ analysis.totalAttempts = Len(submissions)
            /\ analysis.totalProblemsSolved <= analysis.totalAccepted
            /\ analysis.totalAccepted <= analysis.totalSubmissions

\* one problem accepted twice and a failed submission: 1 < 2 < 3
C22_Witness ==
    /\ Done
    /\ analysis.totalProblemsSolved = 1
    /\ analysis.totalAccepted = 2
    /\ analysis.totalSubmissions = 3
    /\ analysis.totalAttempts = 3

(***************************************************************************)
(* C23: however POST /register requests with one e-mail address (letter    *)
(* case aside) interleave, at most one user has that address afterwards,   *)
(* at most one of the requests gets 201 with a token, and every other one  *)
(* gets 400 and creates or changes no user.                                *)
(***************************************************************************)
Answered == {i \in 1..Len(regs) : regs[i].pc = "done"}

Created == {i \in Answered : regs[i].res.status = 201}

SameEmail(i, j) == toLowerCase(regs[i].body.email) = toLowerCase(regs[j].body.email)

StartedAfter(task) == dash.currentConversationId > task.sentAt

\* a step of the handler invocation i
TaskSteps(i) == i <= Len(tasks) /\ InFlight(tasks[i]) /\ tasks'[i] # tasks[i]

LeavesNewConversationAlone ==
    \A i \in 1..MaxRequests :
        (TaskSteps(i) /\ tasks[i].handle # "" /\ StartedAfter(tasks[i]))
            => /\ dash'.codeforcesUser = NoUser
               /\ ~dash'.showUserCard
               /\ dash'.conversation = dash.conversation

\* C24: when a new conversation was started (New chat, or deleting the current
\* conversation) while fetchCodeforcesUser is in flight, no step of that
\* invocation shows a user card in, or appends a message to, the new
\* conversation.
C24_NewConversationUntouched == [][LeavesNewConversationAlone]_vars

\* the fair run: each invocation in flight comes to its end with loading and
\* isTyping both false
EveryRequestEnds ==
    \A i \in 1..MaxRequests :
        (i <= Len(tasks) /\ InFlight(tasks[i]))
            ~> (i <= Len(tasks) /\ ~InFlight(tasks[i])
                /\ ~dash.loading /\ ~dash.isTyping)

NoSecondRequest == dash.loading => Len(tasks') = Len(tasks)

\* C29: every invocation of fetchCodeforcesUser or handleSendMessage that set
\* loading and isTyping eventually sets both back to false, whatever the
\* network calls answer, and while loading is true no further request is
\* started.
C29_LoadingEnds == EveryRequestEnds /\ [][NoSecondRequest]_vars

\* two requests have ended, one on the path of the thrown exception and one
\* where the submissions were unavailable, and the dashboard is idle again
C29_Witness ==
    /\ Len(tasks) = 2
    /\ tasks[1].outcome = "Limited Analysis"
    /\ tasks[2].outcome = "Analysis Error"
    /\ ~dash.loading
    /\ ~dash.isTyping

HistoryWellFormed ==
    LET history == dash.conversationsHistory
    IN  /\ Len(history) <= HistoryLimit
        /\ \A i, j \in 1..Len(history) : history[i].id = history[j].id => i = j
        /\ \A i \in 1..Len(history) : Len(history[i].messages) > 1

\* the invocation i ends in this step and saveCurrentConversation stores
Saves(i) ==
    /\ TaskSteps(i)
    /\ tasks'[i].outcome \notin {"", "User Not Found", "Limited Analysis", "Analysis Error"}
    /\ ~nothingToSave(tasks[i].closure.conversation)

SavedIsFirst ==
    \A i \in 1..MaxRequests :
        Saves(i) => /\ dash'.conversationsHistory # <<>>
                    /\ dash'.conversationsHistory[1].id =
                           tasks[i].closure.currentConversationId

\* an id enters the history only by being saved
AbsentUntilSaved ==
    \A id \in HistoryIds(dash'.conversationsHistory) :
        id \notin HistoryIds(dash.conversationsHistory)
            => \E i \in 1..MaxRequests :
                   Saves(i) /\ tasks[i].closure.currentConversationId = id

\* C30: the stored history has at most 50 conversations with distinct ids
\* and more than the welcome message each, a save puts the saved conversation
\* first, and an id that is absent (deleted) stays absent until it is saved.
C30_History == []HistoryWellFormed /\ [][SavedIsFirst /\ AbsentUntilSaved]_vars

\* the parts of C30 that hold
C30_HistoryShape == []HistoryWellFormed /\ [][SavedIsFirst]_vars

\* ---------------------------------------------------------------------------
\* verifyToken claims
\* ---------------------------------------------------------------------------

DeepseekServed == {i \in 1..Len(gate.served) : gate.served[i].router = "deepseek"}

Verifies(authHeader) ==
    /\ tokenIn(authHeader) # ""
    /\ jwtVerify(tokenIn(authHeader), secretOf(gate.env)) = ""

\* C25: outside development the deepseek verifyToken lets a request through
\* only with a token that verifies against the JWT secret; without one the
\* request gets 401 and the handler never runs; each request gets exactly one
\* of next() and an error response.
C25_VerifyToken ==
    (gate # NoGate /\ gate.env.NODE_ENV # "development") =>
        \A i \in DeepseekServed :
            LET r == gate.served[i]
            IN  /\ r.nextCalls + r.responses = 1
                /\ r.handlerRan => r.nextCalls = 1
                /\ IF Verifies(r.authHeader)
                   THEN r.nextCalls = 1
                   ELSE r.status = 401 /\ r.nextCalls = 0 /\ ~r.handlerRan

\* in production an expired token and a missing one were refused with 401 and
\* a handler ran for a request with a verifying token
C25_Witness ==
    /\ gate # NoGate
    /\ gate.env.NODE_ENV = "production"
    /\ \E i, j \in DeepseekServed :
        /\ gate.served[i].authHeader = <<"Bearer", "t3">>
        /\ gate.served[i].error = "Token expired"
        /\ gate.served[j].handlerRan
        /\ Verifies(gate.served[j].authHeader)

\* ---------------------------------------------------------------------------
\* History and persistence claims
\* ---------------------------------------------------------------------------

\* the generation response told the client the id of a stored generation and
\* a history response lists entries
AnsweredAndListed ==
    /\ rpc = "done"
    /\ res.status = 200
    /\ "generationId" \in DOMAIN res.body
    /\ res.body.generationId # 0
    /\ historyRes # NoResponse
    /\ historyRes.status = 200

\* C26: the entry GET /history (or GET /history/:id) returns for a persisted
\* generation carries the mode of the generation response, and a generation
\* answered with mode 'ai' is shown as AI by the history panel.
C26_ModeRoundTrip ==
    AnsweredAndListed =>
        \A i \in 1..Len(historyRes.body.generations) :
            LET entry == historyRes.body.generations[i]
            IN  entry.id = res.body.generationId =>
                    /\ entry.mode = res.body.mode
                    /\ res.body.mode = "ai" => modeChip(entry) = "AI"

\* C28: once the answer of the model (or its replacement) is there, a failure
\* of generation.save() or of the API-usage update does not fail the request:
\* the response is success: true with that data and mode, and generationId
\* is null exactly when no Generation was saved.
C28_SaveFailureTolerated ==
    (rpc = "done" /\ aiResult # NoResult) =>
        /\ res.status = 200
        /\ res.body.success
        /\ res.body.data = aiResult.data
        /\ res.body.mode = aiResult.mode
        /\ res.body.generationId = 0 <=> generations = <<>>

\* the Generation was saved, the update of the API usage was rejected, and
\* the request was answered with the id of the Generation
C28_Witness ==
    /\ rpc = "done"
    /\ usageOutcome = "rejected"
    /\ generations # <<>>
    /\ res.body.success
    /\ res.body.generationId = generations[1].id

\* C27: for every profile rating, an absent one read as 1200, the band the
\* fallback prints is well formed: its lower bound max(800, rating - 100) is
\* at most its upper bound rating + 100.
C27_BandWellFormed ==
    docBy \in FallbackFunctions =>
        LET range == ratingRange(fallbackUserRating(synthArgs.userData))
        IN  /\ ValueAfter(doc, "1. **Target Rating**: Practice problems rated ")
                   = ToString(range[1]) \o "-" \o ToString(range[2])
            /\ range[1] <= range[2]

\* the band is well formed for the ratings from 700 up and for an absent one
C27_BandWellFormedFrom700 ==
    (docBy \in FallbackFunctions /\ synthArgs.userData.rating \notin 1..699) =>
        LET range == ratingRange(fallbackUserRating(synthArgs.userData))
        IN  range[1] <= range[2]

=============================================================================
